---- MODULE Spec2Model ----
(***************************************************************************)
(* Lowering of a match-expression tree into an SBE plan                    *)
(* (mongo/db/query/sbe_stage_builder_filter.cpp), together with the        *)
(* evaluation of the produced plan on one document.                        *)
(*                                                                         *)
(* The compiler is modelled as the pre/in/post walk of the predicate tree  *)
(* over MatchExpressionVisitorContext (the stack of EvalFrames, the slot   *)
(* and frame id generators, outputSlot, topLevelAnd).  The plan is an      *)
(* explicit tree of stages and expressions; EvalS and EvalE give the       *)
(* meaning of that tree on a document and record which leaf predicate was  *)
(* evaluated on which value.                                               *)
(***************************************************************************)
EXTENDS Integers, Sequences, FiniteSets, TLC

(***************************************************************************)
(* Bounds of the model.                                                    *)
(***************************************************************************)
\* Largest number of children of a generated AND / OR / NOR node.
MaxChildren == 3
\* Largest length of a generated array value in a document.
MaxArrayLen == 2

\* kMaxChildrenForTopLevelAndOptimization
kMaxChildrenForTopLevelAndOptimization == 25

(***************************************************************************)
(* Values.  Nothing is the absence of a value (a missing field).           *)
(***************************************************************************)
FieldNames == {"a", "b", ""}

Nothing == [t |-> "nothing"]
Null == [t |-> "null"]
MinKey == [t |-> "minKey"]
MaxKey == [t |-> "maxKey"]
IntV(n) == [t |-> "int", i |-> n]
BoolV(x) == [t |-> "bool", b |-> x]
ArrV(s) == [t |-> "arr", e |-> s]
StrV(s) == [t |-> "str", s |-> s]
ObjV(f) == [t |-> "obj", f |-> f]
\* The state of the index state helper: a boolean and the index of the
\* matching array element (-1: no index).
IdxState(x, i) == [t |-> "state", sb |-> x, idx |-> i]

NoFields == [n \in FieldNames |-> Nothing]
ObjA(v) == ObjV([NoFields EXCEPT !["a"] = v])
ObjB(v) == ObjV([NoFields EXCEPT !["b"] = v])
ObjE(v) == ObjV([NoFields EXCEPT ![""] = v])

IsTrue(v) == v.t = "bool" /\ v.b
IsFalse(v) == v.t = "bool" /\ ~v.b

Min2(x, y) == IF x < y THEN x ELSE y

(***************************************************************************)
(* woCompare: the total order on values used when arrays are compared      *)
(* (canonical type order, then the values).  -1, 0 or 1.                   *)
(***************************************************************************)
TypeRank(v) ==
    CASE v.t = "minKey" -> 0
      [] v.t = "nothing" -> 1
      [] v.t = "null" -> 2
      [] v.t = "int" -> 3
      [] v.t = "obj" -> 4
      [] v.t = "arr" -> 5
      [] v.t = "bool" -> 6
      [] v.t = "state" -> 7
      [] v.t = "maxKey" -> 8

Sign(x, y) == IF x < y THEN -1 ELSE IF x > y THEN 1 ELSE 0

RECURSIVE WoCompare(_, _)
RECURSIVE WoCompareSeq(_, _, _)
RECURSIVE WoCompareObj(_, _, _)
WoCompareSeq(x, y, i) ==
    IF i > Len(x) /\ i > Len(y) THEN 0
    ELSE IF i > Len(x) THEN -1
    ELSE IF i > Len(y) THEN 1
    ELSE LET c == WoCompare(x[i], y[i])
         IN IF c # 0 THEN c ELSE WoCompareSeq(x, y, i + 1)
WoCompareObj(x, y, names) ==
    IF names = <<>> THEN 0
    ELSE LET c == WoCompare(x[Head(names)], y[Head(names)])
         IN IF c # 0 THEN c ELSE WoCompareObj(x, y, Tail(names))
WoCompare(x, y) ==
    IF TypeRank(x) # TypeRank(y) THEN Sign(TypeRank(x), TypeRank(y))
    ELSE CASE x.t = "int" -> Sign(x.i, y.i)
           [] x.t = "arr" -> WoCompareSeq(x.e, y.e, 1)
           [] x.t = "obj" -> WoCompareObj(x.f, y.f, <<"", "a", "b">>)
           [] x.t = "bool" -> Sign(IF x.b THEN 1 ELSE 0, IF y.b THEN 1 ELSE 0)
           [] OTHER -> 0

OpHolds(op, c) ==
    CASE op = "eq" -> c = 0
      [] op = "less" -> c < 0
      [] op = "lessEq" -> c <= 0
      [] op = "greater" -> c > 0
      [] op = "greaterEq" -> c >= 0

\* A comparison of the SBE VM: values of different types do not compare
\* (the result is Nothing), values of one type compare by woCompare.
Comparable(x, y) ==
    /\ x.t = y.t
    /\ x.t \in {"null", "int", "arr", "obj", "bool", "minKey", "maxKey"}

CompareOp(op, x, y) ==
    IF Comparable(x, y) THEN BoolV(OpHolds(op, WoCompare(x, y))) ELSE Nothing

(***************************************************************************)
(* Expressions of the plan (sbe::EExpression).                             *)
(***************************************************************************)
makeConstant(v) == [k |-> "const", v |-> v]
\* A slot variable, sbe::EVariable(slot).
makeVariable(slot) == [k |-> "var", s |-> slot]
\* A local variable, sbe::EVariable{frameId, 0}.
makeLocalVar(frame) == [k |-> "lvar", f |-> frame]
makeBinaryOp(op, l, r) == [k |-> "bin", op |-> op, l |-> l, r |-> r]
makeNot(e) == [k |-> "not", e |-> e]
makeFunction1(name, x) == [k |-> "fn", name |-> name, args |-> <<x>>]
makeFunction2(name, x, y) == [k |-> "fn", name |-> name, args |-> <<x, y>>]
makeFunction3(name, x, y, z) == [k |-> "fn", name |-> name, args |-> <<x, y, z>>]
makeIf(c, t, e) == [k |-> "if", c |-> c, t |-> t, e |-> e]
makeLocalBindE(frame, bind, body) ==
    [k |-> "let", frame |-> frame, bind |-> bind, body |-> body]
makeLocalLambda(frame, body) == [k |-> "lambda", frame |-> frame, body |-> body]
\* Variant: Nothing is not converted to false.
makeFillEmptyFalseOmitted(e) == e

makeFillEmptyFalse(e) == makeBinaryOp("fillEmpty", e, makeConstant(BoolV(FALSE)))
\* The evaluation of the leaf predicate of node 'id' on variable 'var'.
markLeaf(id, var, e) == [k |-> "leaf", id |-> id, var |-> var, e |-> e]

\* generateNullOrMissing: the value is missing, null or undefined.
generateNullOrMissing(var) ==
    makeBinaryOp("logicOr",
                 makeNot(makeFunction1("exists", var)),
                 makeFunction2("typeMatch", var, makeConstant({"null"})))

(***************************************************************************)
(* Predicate nodes (MatchExpression).  'path' is the field path, a         *)
(* sequence of components (empty for the children of $elemMatch value).    *)
(***************************************************************************)
Node(kind, path, rhs, param, children) ==
    [kind |-> kind, path |-> path, rhs |-> rhs, param |-> param, children |-> children]
numChildren(n) == Len(n.children)

ComparisonKinds == {"eq", "lt", "lte", "gt", "gte"}
BinaryOpOf(kind) ==
    CASE kind = "eq" -> "eq"
      [] kind = "lt" -> "less"
      [] kind = "lte" -> "lessEq"
      [] kind = "gt" -> "greater"
      [] kind = "gte" -> "greaterEq"

\* LeafTraversalMode
kDoNotTraverseLeaf == "kDoNotTraverseLeaf"
kArrayAndItsElements == "kArrayAndItsElements"
kArrayElementsOnly == "kArrayElementsOnly"

\* Variant: every comparison is also tried on the whole array.
traverseArrayAndItsElements(rhs) == kArrayAndItsElements

\* Variant: no comparison is tried on the whole array.
traverseArrayElementsOnly(rhs) == kArrayElementsOnly

\* The traversal mode of a comparison: the whole array is compared too
\* when the operand is an array, MinKey or MaxKey.
comparisonTraversalMode(rhs) ==
    IF rhs.t = "arr" \/ rhs.t = "minKey" \/ rhs.t = "maxKey"
    THEN kArrayAndItsElements ELSE kArrayElementsOnly

\* Variant: no comparison is taken to match a missing value.
comparisonNeverMatchesNothing(rhs, binaryOp) == FALSE

comparisonMatchesNothing(rhs, binaryOp) ==
    rhs.t = "null" /\ binaryOp \in {"eq", "lessEq", "greaterEq"}

(***************************************************************************)
(* The classic matcher (MatchExpression::matches): the meaning of a        *)
(* predicate tree on a value, which is the document or, below an           *)
(* $elemMatch, the current array element.                                  *)
(***************************************************************************)
\* The values the field path leads to.  An array met before the last
\* component is descended into through its object elements only; a value
\* that is not an object and is reached directly stands for a missing field.
RECURSIVE LeafValues(_, _, _)
LeafValues(v, path, viaArray) ==
    IF path = <<>> THEN {v}
    ELSE IF v.t = "obj"
    THEN LET x == v.f[Head(path)]
         IN IF Len(path) = 1 THEN {x}
            ELSE IF x.t = "arr"
            THEN UNION {LeafValues(x.e[i], Tail(path), TRUE) : i \in 1..Len(x.e)}
            ELSE LeafValues(x, Tail(path), FALSE)
    ELSE IF viaArray THEN {} ELSE {Nothing}

\* The values a comparison is tried on, for leaf value x: the elements of
\* an array, and the array itself when the operand is an array, MinKey or
\* MaxKey; the value itself otherwise and below an $elemMatch (value).
Candidates(x, path, rhs) ==
    IF x.t # "arr" \/ path = <<>> THEN {x}
    ELSE IF rhs.t \in {"arr", "minKey", "maxKey"}
    THEN {x.e[i] : i \in 1..Len(x.e)} \cup {x}
    ELSE {x.e[i] : i \in 1..Len(x.e)}

CompareMatches(kind, rhs, c) ==
    IF rhs.t = "null" THEN kind \in {"eq", "lte", "gte"} /\ c.t \in {"nothing", "null"}
    ELSE c.t = rhs.t /\ OpHolds(BinaryOpOf(kind), WoCompare(c, rhs))

RECURSIVE Matches(_, _)
Matches(n, v) ==
    CASE n.kind = "alwaysTrue" -> TRUE
      [] n.kind = "alwaysFalse" -> FALSE
      [] n.kind = "and" -> \A i \in 1..Len(n.children) : Matches(n.children[i], v)
      [] n.kind = "or" -> \E i \in 1..Len(n.children) : Matches(n.children[i], v)
      [] n.kind = "nor" -> ~\E i \in 1..Len(n.children) : Matches(n.children[i], v)
      [] n.kind = "not" -> ~Matches(n.children[1], v)
      [] n.kind \in ComparisonKinds ->
            \E x \in LeafValues(v, n.path, FALSE) :
                \E c \in Candidates(x, n.path, n.rhs) :
                    CompareMatches(n.kind, n.rhs, c)
      [] n.kind = "size" ->
            \E x \in LeafValues(v, n.path, FALSE) : x.t = "arr" /\ Len(x.e) = n.rhs.i
      [] n.kind = "exists" ->
            \E x \in LeafValues(v, n.path, FALSE) : x.t # "nothing"
      [] n.kind = "elemMatchObject" ->
            \E x \in LeafValues(v, n.path, FALSE) :
                /\ x.t = "arr"
                /\ \E i \in 1..Len(x.e) :
                      x.e[i].t \in {"obj", "arr"} /\ Matches(n.children[1], x.e[i])
      [] n.kind = "elemMatchValue" ->
            \E x \in LeafValues(v, n.path, FALSE) :
                /\ x.t = "arr"
                /\ \E i \in 1..Len(x.e) :
                      \A j \in 1..Len(n.children) : Matches(n.children[j], x.e[i])
      [] OTHER -> FALSE

(***************************************************************************)
(* Evaluation of an expression in an environment env = [s, f]: s maps      *)
(* slots to values, f maps local frames to values.  The result is          *)
(* [v |-> value, ev |-> leaf evaluations made].                            *)
(***************************************************************************)
R(v, ev) == [v |-> v, ev |-> ev]
EmptyEnv == [s |-> <<>>, f |-> <<>>]
BindSlot(env, slot, v) == [env EXCEPT !.s = (slot :> v) @@ env.s]
BindFrame(env, frame, v) == [env EXCEPT !.f = (frame :> v) @@ env.f]
SlotVal(env, slot) == IF slot \in DOMAIN env.s THEN env.s[slot] ELSE Nothing

Builtin1(name, x) ==
    CASE name = "exists" -> BoolV(x.t # "nothing")
      [] name = "isArray" -> IF x.t = "nothing" THEN Nothing ELSE BoolV(x.t = "arr")
      [] name = "isObject" -> IF x.t = "nothing" THEN Nothing ELSE BoolV(x.t = "obj")
      [] name = "isMinKey" -> IF x.t = "nothing" THEN Nothing ELSE BoolV(x.t = "minKey")
      [] name = "isMaxKey" -> IF x.t = "nothing" THEN Nothing ELSE BoolV(x.t = "maxKey")
      [] name = "getArraySize" -> IF x.t = "arr" THEN IntV(Len(x.e)) ELSE Nothing
      [] name = "getBool" -> IF x.t = "state" THEN BoolV(x.sb) ELSE Nothing
      [] name = "stateIndex" ->
            IF x.t = "state" /\ x.sb /\ x.idx >= 0 THEN IntV(x.idx) ELSE Nothing

Builtin2(name, x, y) ==
    CASE name = "getField" ->
            IF x.t = "obj" /\ y.t = "str" THEN x.f[y.s] ELSE Nothing
      [] name = "typeMatch" -> IF x.t = "nothing" THEN Nothing ELSE BoolV(x.t \in y)
      [] name = "foldIndex" ->
            \* x: the accumulated state, y: the state of the current element.
            IF x.t = "state" /\ y.t = "state"
            THEN IdxState(y.sb, x.idx + 1) ELSE Nothing

RECURSIVE EvalE(_, _)
RECURSIVE TraverseFInArray(_, _, _, _, _, _)
ApplyLambda(lam, v, env) == EvalE(lam.body, BindFrame(env, lam.frame, v))

\* traverseF on an array: the lambda is applied to the elements in order
\* until one yields true; with compareArray the lambda is then applied to
\* the array itself.
TraverseFInArray(lam, arr, i, compareArray, env, ev) ==
    IF i > Len(arr.e)
    THEN IF compareArray
         THEN LET r == ApplyLambda(lam, arr, env) IN R(r.v, ev \cup r.ev)
         ELSE R(BoolV(FALSE), ev)
    ELSE LET r == ApplyLambda(lam, arr.e[i], env)
         IN IF IsTrue(r.v) THEN R(BoolV(TRUE), ev \cup r.ev)
            ELSE TraverseFInArray(lam, arr, i + 1, compareArray, env, ev \cup r.ev)

EvalE(e, env) ==
    CASE e.k = "const" -> R(e.v, {})
      [] e.k = "newObj" ->
            R(ObjV([n \in FieldNames |->
                       IF \E i \in 1..Len(e.fields) : e.fields[i] = n
                       THEN SlotVal(env, e.slots[CHOOSE i \in 1..Len(e.fields) :
                                                    e.fields[i] = n])
                       ELSE Nothing]), {})
      [] e.k = "var" -> R(SlotVal(env, e.s), {})
      [] e.k = "lvar" -> R(env.f[e.f], {})
      [] e.k = "not" ->
            LET r == EvalE(e.e, env)
            IN R(IF r.v.t = "bool" THEN BoolV(~r.v.b) ELSE Nothing, r.ev)
      [] e.k = "leaf" ->
            LET on == EvalE(e.var, env)
                r == EvalE(e.e, env)
            IN R(r.v, r.ev \cup {[leaf |-> e.id, on |-> on.v]})
      [] e.k = "if" ->
            LET c == EvalE(e.c, env)
            IN IF IsTrue(c.v)
               THEN LET r == EvalE(e.t, env) IN R(r.v, c.ev \cup r.ev)
               ELSE IF IsFalse(c.v)
               THEN LET r == EvalE(e.e, env) IN R(r.v, c.ev \cup r.ev)
               ELSE R(Nothing, c.ev)
      [] e.k = "let" ->
            LET b == EvalE(e.bind, env)
                r == EvalE(e.body, BindFrame(env, e.frame, b.v))
            IN R(r.v, b.ev \cup r.ev)
      [] e.k = "bin" ->
            LET l == EvalE(e.l, env)
            IN CASE e.op = "fillEmpty" ->
                      IF l.v.t # "nothing" THEN l
                      ELSE LET r == EvalE(e.r, env) IN R(r.v, l.ev \cup r.ev)
                 [] e.op = "logicOr" ->
                      IF l.v.t # "bool" THEN R(Nothing, l.ev)
                      ELSE IF l.v.b THEN l
                      ELSE LET r == EvalE(e.r, env)
                           IN R(IF r.v.t = "bool" THEN r.v ELSE Nothing, l.ev \cup r.ev)
                 [] e.op = "logicAnd" ->
                      IF l.v.t # "bool" THEN R(Nothing, l.ev)
                      ELSE IF ~l.v.b THEN l
                      ELSE LET r == EvalE(e.r, env)
                           IN R(IF r.v.t = "bool" THEN r.v ELSE Nothing, l.ev \cup r.ev)
                 [] OTHER ->
                      LET r == EvalE(e.r, env)
                      IN R(CompareOp(e.op, l.v, r.v), l.ev \cup r.ev)
      [] e.k = "fn" ->
            IF e.name = "traverseF"
            THEN LET fld == EvalE(e.args[1], env)
                     compareArray == e.args[3].v.b
                 IN IF fld.v.t = "arr"
                    THEN TraverseFInArray(e.args[2], fld.v, 1, compareArray, env, fld.ev)
                    ELSE LET r == ApplyLambda(e.args[2], fld.v, env)
                         IN R(r.v, fld.ev \cup r.ev)
            ELSE IF e.name = "applyClassicMatcher"
            THEN LET x == EvalE(e.args[2], env)
                 IN R(BoolV(Matches(e.args[1].v, x.v)), x.ev)
            ELSE IF Len(e.args) = 1
            THEN LET x == EvalE(e.args[1], env) IN R(Builtin1(e.name, x.v), x.ev)
            ELSE LET x == EvalE(e.args[1], env)
                     y == EvalE(e.args[2], env)
                 IN R(Builtin2(e.name, x.v, y.v), x.ev \cup y.ev)

(***************************************************************************)
(* Stages of the plan (EvalStage / sbe::PlanStage).                        *)
(***************************************************************************)
\* EvalStage{}: the null stage; built upon, it stands for limit-1/coscan.
NullStage == [k |-> "null"]
\* The stage handed to generateFilter (a scan that binds the input slot).
InputStage == [k |-> "input"]
makeProject(stage, slot, e) ==
    [k |-> "project", child |-> stage, binds |-> <<[slot |-> slot, e |-> e]>>]
makeProject2(stage, slot1, e1, slot2, e2) ==
    [k |-> "project", child |-> stage,
     binds |-> <<[slot |-> slot1, e |-> e1], [slot |-> slot2, e |-> e2]>>]
\* makeFilter<IsConst>
makeFilter(isConst, stage, e) ==
    [k |-> "filter", isConst |-> isConst, child |-> stage, e |-> e]
makeLimitSkip(stage, limit) == [k |-> "limit", child |-> stage, n |-> limit]
makeUnion(branches, inSlots, outSlot) ==
    [k |-> "union", branches |-> branches, inSlots |-> inSlots, outSlot |-> outSlot]
\* A loop join of a null stage with a stage is that stage.
makeLoopJoin(left, right) ==
    IF left.k = "null" THEN right
    ELSE IF right.k = "null" THEN left
    ELSE [k |-> "loopjoin", left |-> left, right |-> right]
makeTraverse(from, inner, inField, outField, innerOut, fold, final) ==
    [k |-> "traverse", from |-> from, inner |-> inner, inField |-> inField,
     outField |-> outField, innerOut |-> innerOut, fold |-> fold, final |-> final]

(***************************************************************************)
(* Evaluation of a stage: the first n rows it returns in environment env   *)
(* (each row is an environment), pulled one at a time as getNext() does,   *)
(* and the leaf evaluations made to produce them.                          *)
(***************************************************************************)
RS(rows, ev) == [rows |-> rows, ev |-> ev]

RECURSIVE EvalS(_, _, _)
RECURSIVE ProjectRow(_, _, _, _)
RECURSIVE ProjectRows(_, _, _, _, _)
RECURSIVE FilterPull(_, _, _, _, _, _)
RECURSIVE UnionPull(_, _, _, _, _, _)
RECURSIVE LoopPull(_, _, _, _, _, _)
RECURSIVE TraverseArray(_, _, _, _, _, _, _)
RECURSIVE TraverseRows(_, _, _, _, _)

\* One row of a project stage: [row, ev].
ProjectRow(binds, i, row, acc) ==
    IF i > Len(binds) THEN [row |-> acc.row, ev |-> acc.ev]
    ELSE LET r == EvalE(binds[i].e, row)
         IN ProjectRow(binds, i + 1, row,
                       [row |-> BindSlot(acc.row, binds[i].slot, r.v),
                        ev |-> acc.ev \cup r.ev])

ProjectRows(binds, rows, i, got, ev) ==
    IF i > Len(rows) THEN RS(got, ev)
    ELSE LET r == ProjectRow(binds, 1, rows[i], [row |-> rows[i], ev |-> {}])
         IN ProjectRows(binds, rows, i + 1, Append(got, r.row), ev \cup r.ev)

\* A filter pulls rows from its child until n rows pass or the child ends.
FilterPull(st, env, n, k, got, ev) ==
    IF Len(got) >= n THEN RS(got, ev)
    ELSE LET c == EvalS(st.child, env, k)
         IN IF Len(c.rows) < k THEN RS(got, ev \cup c.ev)
            ELSE LET t == EvalE(st.e, c.rows[k])
                 IN FilterPull(st, env, n, k + 1,
                               IF IsTrue(t.v) THEN Append(got, c.rows[k]) ELSE got,
                               ev \cup c.ev \cup t.ev)

\* A union returns the rows of its branches in order.
UnionPull(st, env, n, i, got, ev) ==
    IF Len(got) >= n \/ i > Len(st.branches) THEN RS(got, ev)
    ELSE LET c == EvalS(st.branches[i], env, n - Len(got))
             out == [j \in 1..Len(c.rows) |->
                        BindSlot(env, st.outSlot, SlotVal(c.rows[j], st.inSlots[i]))]
         IN UnionPull(st, env, n, i + 1, got \o out, ev \cup c.ev)

\* A loop join runs its right side once for every row of its left side.
LoopPull(st, env, n, k, got, ev) ==
    IF Len(got) >= n THEN RS(got, ev)
    ELSE LET l == EvalS(st.left, env, k)
         IN IF Len(l.rows) < k THEN RS(got, ev \cup l.ev)
            ELSE LET r == EvalS(st.right, l.rows[k], n - Len(got))
                 IN LoopPull(st, env, n, k + 1, got \o r.rows, ev \cup l.ev \cup r.ev)

\* The traversal of an array: the inner branch runs once for every element
\* (bound to the traversed slot); the first result initialises the output,
\* later results are folded into it, and the traversal stops as soon as
\* the final expression is true.  [out, ev].
TraverseArray(st, row, arr, i, out, first, ev) ==
    IF i > Len(arr.e) THEN [out |-> out, ev |-> ev]
    ELSE LET in == EvalS(st.inner, BindSlot(row, st.inField, arr.e[i]), 1)
         IN IF Len(in.rows) = 0
            THEN TraverseArray(st, row, arr, i + 1, out, first, ev \cup in.ev)
            ELSE LET iv == SlotVal(in.rows[1], st.innerOut)
                     acc == IF first THEN R(iv, {})
                            ELSE EvalE(st.fold,
                                       BindSlot(BindSlot(row, st.outField, out),
                                                st.innerOut, iv))
                     fin == EvalE(st.final, BindSlot(row, st.outField, acc.v))
                 IN IF IsTrue(fin.v)
                    THEN [out |-> acc.v, ev |-> ev \cup in.ev]
                    ELSE TraverseArray(st, row, arr, i + 1, acc.v, FALSE, ev \cup in.ev)

TraverseRows(st, rows, i, got, ev) ==
    IF i > Len(rows) THEN RS(got, ev)
    ELSE LET v == SlotVal(rows[i], st.inField)
             r == IF v.t = "arr"
                  THEN TraverseArray(st, rows[i], v, 1, Nothing, TRUE, {})
                  ELSE LET in == EvalS(st.inner, rows[i], 1)
                       IN [out |-> IF Len(in.rows) = 0 THEN Nothing
                                   ELSE SlotVal(in.rows[1], st.innerOut),
                           ev |-> in.ev]
         IN TraverseRows(st, rows, i + 1,
                         Append(got, BindSlot(rows[i], st.outField, r.out)),
                         ev \cup r.ev)

EvalS(st, env, n) ==
    CASE st.k = "null" -> RS(<<env>>, {})
      [] st.k = "input" -> RS(<<env>>, {})
      [] st.k = "project" ->
            LET c == EvalS(st.child, env, n)
            IN ProjectRows(st.binds, c.rows, 1, <<>>, c.ev)
      [] st.k = "filter" ->
            IF st.isConst
            THEN LET t == EvalE(st.e, env)
                 IN IF IsTrue(t.v)
                    THEN LET c == EvalS(st.child, env, n) IN RS(c.rows, t.ev \cup c.ev)
                    ELSE RS(<<>>, t.ev)
            ELSE FilterPull(st, env, n, 1, <<>>, {})
      [] st.k = "limit" -> EvalS(st.child, env, Min2(n, st.n))
      [] st.k = "union" -> UnionPull(st, env, n, 1, <<>>, {})
      [] st.k = "loopjoin" -> LoopPull(st, env, n, 1, <<>>, {})
      [] st.k = "traverse" ->
            LET c == EvalS(st.from, env, n)
            IN TraverseRows(st, c.rows, 1, <<>>, c.ev)

(***************************************************************************)
(* FilterStateHelper: the plain-boolean helper (h = FALSE) and the index   *)
(* helper (h = TRUE), whose state pairs the boolean with the index of the  *)
(* first matching array element.                                           *)
(***************************************************************************)
stateContainsValue(h) == h
makeStateConst(h, x) == makeConstant(IF h THEN IdxState(x, -1) ELSE BoolV(x))
makeState(h, e) ==
    IF h THEN makeIf(e, makeConstant(IdxState(TRUE, -1)), makeConstant(IdxState(FALSE, -1)))
    ELSE e
getBool(h, e) == IF h THEN makeFunction1("getBool", e) ELSE e
makeInitialState(h, e) ==
    IF h THEN makeIf(e, makeConstant(IdxState(TRUE, 0)), makeConstant(IdxState(FALSE, 0)))
    ELSE e
makePredicateCombinator(h, pair) ==
    [e |-> makeState(h, pair.e), stage |-> pair.stage, g |-> pair.g]
makeTraverseCombinator(h, outer, inner, inputSlot, outputSlot, innerOutputSlot) ==
    makeTraverse(outer, inner, inputSlot, outputSlot, innerOutputSlot,
                 IF h THEN makeFunction2("foldIndex", makeVariable(outputSlot),
                                         makeVariable(innerOutputSlot))
                 ELSE makeBinaryOp("logicOr", makeVariable(outputSlot),
                                   makeVariable(innerOutputSlot)),
                 getBool(h, makeVariable(outputSlot)))
\* [slot, stage, g]: the index held by the state in 'outputSlot'.
projectValueCombinator(h, outputSlot, stage, g) ==
    [slot |-> g.slot + 1,
     stage |-> makeProject(stage, g.slot + 1,
                           makeFunction1("stateIndex", makeVariable(outputSlot))),
     g |-> [g EXCEPT !.slot = g.slot + 1]]

\* projectEvalExpr: an expression that is a slot is returned as it is, any
\* other expression is projected into a fresh slot.  [slot, stage, g].
projectEvalExpr(e, stage, g) ==
    IF e.k = "var" THEN [slot |-> e.s, stage |-> stage, g |-> g]
    ELSE [slot |-> g.slot + 1,
          stage |-> makeProject(stage, g.slot + 1, e),
          g |-> [g EXCEPT !.slot = g.slot + 1]]

\* Variant: the plain comparison for every operand, null included.
generateComparisonExprGeneral(expr, binaryOp, var) ==
    makeFillEmptyFalse(makeBinaryOp(binaryOp, var, makeConstant(expr.rhs)))

generateComparisonExpr(expr, binaryOp, var) ==
    LET rhs == expr.rhs
        general == makeFillEmptyFalse(makeBinaryOp(binaryOp, var, makeConstant(rhs)))
    IN CASE rhs.t = "minKey" ->
              (CASE binaryOp = "greater" ->
                      makeFillEmptyFalse(makeNot(makeFunction1("isMinKey", var)))
                 [] binaryOp = "greaterEq" -> makeFunction1("exists", var)
                 [] binaryOp = "less" -> makeConstant(BoolV(FALSE))
                 [] binaryOp = "lessEq" -> makeFillEmptyFalse(makeFunction1("isMinKey", var))
                 [] OTHER -> general)
         [] rhs.t = "maxKey" ->
              (CASE binaryOp = "greater" -> makeConstant(BoolV(FALSE))
                 [] binaryOp = "greaterEq" -> makeFillEmptyFalse(makeFunction1("isMaxKey", var))
                 [] binaryOp = "less" ->
                      makeFillEmptyFalse(makeNot(makeFunction1("isMaxKey", var)))
                 [] binaryOp = "lessEq" -> makeFunction1("exists", var)
                 [] OTHER -> general)
         [] rhs.t = "null" ->
              makeFillEmptyFalse(
                  makeBinaryOp(binaryOp,
                               makeIf(generateNullOrMissing(var), makeConstant(Null), var),
                               makeConstant(Null)))
         [] OTHER -> general

(***************************************************************************)
(* The predicate callbacks.  A callback is data:                           *)
(*   [type |-> "expr", node, id, h, hasInputSlot, paramSlot]  the          *)
(*       makePredicateExpr lambda of the visit of leaf 'node';             *)
(*   [type |-> "elemMatch", h, filterSlot, filterStage, childInputSlot]    *)
(*       the makePredicate lambda of the two $elemMatch visits.            *)
(***************************************************************************)
ExprPredicate(node, id, h, hasInputSlot, paramSlot) ==
    [type |-> "expr", node |-> node, id |-> id, h |-> h,
     hasInputSlot |-> hasInputSlot, paramSlot |-> paramSlot]
ElemMatchPredicate(h, filterSlot, filterStage, childInputSlot) ==
    [type |-> "elemMatch", h |-> h, filterSlot |-> filterSlot,
     filterStage |-> filterStage, childInputSlot |-> childInputSlot]

\* The makePredicateExpr lambda of generateArraySize.
sizePredicateExpr(p, var) ==
    makeFillEmptyFalse(
        makeBinaryOp("eq", makeFunction1("getArraySize", var),
                     IF p.paramSlot # 0 THEN makeVariable(p.paramSlot)
                     ELSE makeConstant(p.node.rhs)))

\* The makePredicateExpr lambda of visit(ExistsMatchExpression).
existsPredicateExpr(p, var) ==
    IF p.node.path # <<>> /\ p.hasInputSlot
    THEN makeState(p.h, makeFunction1("exists", var))
    ELSE makeFunction1("exists", var)

makePredicateExpr(p, var) ==
    markLeaf(p.id, var,
             CASE p.node.kind \in ComparisonKinds ->
                     generateComparisonExpr(p.node, BinaryOpOf(p.node.kind), var)
               [] p.node.kind = "size" -> sizePredicateExpr(p, var)
               [] p.node.kind = "exists" -> existsPredicateExpr(p, var))

(***************************************************************************)
(* generateTraverseF: [e, g].  'inputVar' is an expression or NoExpr,      *)
(* 'topLevelFieldSlot' a slot or 0.                                        *)
(***************************************************************************)
NoExpr == [k |-> "none"]
numParts(fp) == IF fp = <<>> THEN 1 ELSE Len(fp)
\* The C++ indexes path components from 0.
getPart(fp, level) == IF fp = <<>> THEN "" ELSE fp[level + 1]
isPathComponentEmpty(fp, level) == getPart(fp, level) = ""
ArrayOrObjectMask == {"arr", "obj"}

\* slotIdGenerator->generate() / frameIdGenerator->generate(), n times.
generateSlots(g, n) == [g EXCEPT !.slot = @ + n]
generateFrames(g, n) == [g EXCEPT !.frame = @ + n]
generateSlotsIf(cond, g, n) == IF cond THEN generateSlots(g, n) ELSE g
generateFramesIf(cond, g, n) == IF cond THEN generateFrames(g, n) ELSE g

\* The expression that reads the field of the current level: the kField
\* slot or a getField, looking into a trailing empty component unless the
\* field is an array.
traverseFFieldExpr(frameId, inputVar, topLevelFieldSlot, fieldName, childIsLeafWithEmptyName) ==
    LET fieldExpr ==
            IF topLevelFieldSlot # 0 THEN makeVariable(topLevelFieldSlot)
            ELSE makeFunction2("getField", inputVar, makeConstant(StrV(fieldName)))
    IN IF childIsLeafWithEmptyName
       THEN makeLocalBindE(frameId, fieldExpr,
                makeIf(makeFunction1("isArray", makeLocalVar(frameId)),
                       makeLocalVar(frameId),
                       makeFunction2("getField", makeLocalVar(frameId),
                                     makeConstant(StrV("")))))
       ELSE fieldExpr

\* The expression of the current level around the [e, g] of the level
\* below (or of the predicate, at the leaf).
traverseFOver(rec, fieldExpr, inputVar, lambdaFrameId, isLeafField, needsArrayCheck, needsNothingCheck, mode) ==
    LET lambdaParam == makeLocalVar(lambdaFrameId)
        resultExpr ==
            IF needsNothingCheck
            THEN makeIf(makeFillEmptyFalse(makeFunction1("isObject", lambdaParam)),
                        rec.e, makeConstant(BoolV(FALSE)))
            ELSE rec.e
        lambdaExpr == makeLocalLambda(lambdaFrameId, resultExpr)
        frameId == rec.g.frame + 1
        fieldExpr2 == IF needsNothingCheck THEN makeLocalVar(frameId) ELSE fieldExpr
        traverseFExpr ==
            makeFillEmptyFalse(
                makeFunction3("traverseF", fieldExpr2, lambdaExpr,
                              makeConstant(BoolV(needsArrayCheck))))
        checked ==
            makeIf(makeFillEmptyFalse(
                       makeFunction2("typeMatch", fieldExpr2,
                                     makeConstant(ArrayOrObjectMask))),
                   traverseFExpr,
                   IF inputVar.k # "none"
                   THEN makeNot(makeFillEmptyFalse(makeFunction1("isArray", inputVar)))
                   ELSE makeConstant(BoolV(TRUE)))
    IN IF isLeafField /\ mode = kDoNotTraverseLeaf
       THEN [e |-> makeLocalBindE(lambdaFrameId, fieldExpr, rec.e), g |-> rec.g]
       ELSE IF needsNothingCheck
       THEN [e |-> makeLocalBindE(frameId, fieldExpr, checked),
             g |-> generateFrames(rec.g, 1)]
       ELSE [e |-> traverseFExpr, g |-> rec.g]

RECURSIVE generateTraverseF(_, _, _, _, _, _, _, _)
generateTraverseF(g, inputVar, topLevelFieldSlot, fp, level, p, matchesNothing, mode) ==
    LET childIsLeafWithEmptyName ==
            level = numParts(fp) - 2 /\ isPathComponentEmpty(fp, level + 1)
        isLeafField == level = numParts(fp) - 1 \/ childIsLeafWithEmptyName
        lambdaFrameId == g.frame + 1
        g2 == generateFramesIf(childIsLeafWithEmptyName, generateFrames(g, 1), 1)
    IN traverseFOver(IF isLeafField
                     THEN [e |-> makePredicateExpr(p, makeLocalVar(lambdaFrameId)), g |-> g2]
                     ELSE generateTraverseF(g2, makeLocalVar(lambdaFrameId), 0, fp, level + 1,
                                            p, matchesNothing, mode),
                     traverseFFieldExpr(g2.frame, inputVar, topLevelFieldSlot,
                                        getPart(fp, level), childIsLeafWithEmptyName),
                     inputVar, lambdaFrameId, isLeafField,
                     isLeafField /\ mode = kArrayAndItsElements,
                     ~isLeafField /\ matchesNothing, mode)

(***************************************************************************)
(* elemMatchMakePredicate: the makePredicate callback of both $elemMatch   *)
(* forms.  [e, stage, g].                                                  *)
(***************************************************************************)
\* Variant: the inner branch runs without the isArray guard.
elemMatchMakePredicateUnguarded(p, inputSlot, inputStage, g) ==
    LET h == p.h
        isInputArray == g.slot + 1
        g1 == [g EXCEPT !.slot = g.slot + 1]
        fromBranch ==
            makeProject2(inputStage,
                         p.childInputSlot, makeVariable(inputSlot),
                         isInputArray, makeFunction1("isArray", makeVariable(inputSlot)))
        g2 == IF stateContainsValue(h) THEN [g1 EXCEPT !.slot = g1.slot + 1] ELSE g1
        innerResultSlot == IF stateContainsValue(h) THEN g2.slot ELSE p.filterSlot
        innerBranch0 ==
            IF stateContainsValue(h)
            THEN makeProject(p.filterStage, g2.slot,
                             makeInitialState(h, getBool(h, makeVariable(p.filterSlot))))
            ELSE p.filterStage
        innerBranch == innerBranch0
        traverseSlot == g2.slot + 1
        g3 == [g2 EXCEPT !.slot = g2.slot + 1]
        traverseStage ==
            makeTraverseCombinator(h, fromBranch, innerBranch, p.childInputSlot,
                                   traverseSlot, innerResultSlot)
    IN [e |-> makeBinaryOp("fillEmpty", makeVariable(traverseSlot),
                           makeStateConst(h, FALSE)),
        stage |-> traverseStage,
        g |-> g3]

elemMatchMakePredicate(p, inputSlot, inputStage, g) ==
    LET h == p.h
        isInputArray == g.slot + 1
        g1 == [g EXCEPT !.slot = g.slot + 1]
        fromBranch ==
            makeProject2(inputStage,
                         p.childInputSlot, makeVariable(inputSlot),
                         isInputArray, makeFunction1("isArray", makeVariable(inputSlot)))
        g2 == IF stateContainsValue(h) THEN [g1 EXCEPT !.slot = g1.slot + 1] ELSE g1
        innerResultSlot == IF stateContainsValue(h) THEN g2.slot ELSE p.filterSlot
        innerBranch0 ==
            IF stateContainsValue(h)
            THEN makeProject(p.filterStage, g2.slot,
                             makeInitialState(h, getBool(h, makeVariable(p.filterSlot))))
            ELSE p.filterStage
        innerBranch == makeFilter(TRUE, innerBranch0, makeVariable(isInputArray))
        traverseSlot == g2.slot + 1
        g3 == [g2 EXCEPT !.slot = g2.slot + 1]
        traverseStage ==
            makeTraverseCombinator(h, fromBranch, innerBranch, p.childInputSlot,
                                   traverseSlot, innerResultSlot)
    IN [e |-> makeBinaryOp("fillEmpty", makeVariable(traverseSlot),
                           makeStateConst(h, FALSE)),
        stage |-> traverseStage,
        g |-> g3]

\* Variant: the expression callback is invoked a second time.
makePredicateInvokedTwice(p, inputSlot, inputStage, g) ==
    IF p.type = "elemMatch" THEN elemMatchMakePredicate(p, inputSlot, inputStage, g)
    ELSE [e |-> makeBinaryOp("logicOr", makePredicateExpr(p, makeVariable(inputSlot)),
                             makePredicateExpr(p, makeVariable(inputSlot))),
          stage |-> inputStage, g |-> g]

\* A call of the makePredicate callback 'p'.  [e, stage, g].
makePredicate(p, inputSlot, inputStage, g) ==
    IF p.type = "elemMatch" THEN elemMatchMakePredicate(p, inputSlot, inputStage, g)
    ELSE [e |-> makePredicateExpr(p, makeVariable(inputSlot)), stage |-> inputStage, g |-> g]

(***************************************************************************)
(* generatePathTraversal: [e, stage, g].  'inputDocumentSlot' and          *)
(* 'topLevelFieldSlot' are slots or 0.                                     *)
(***************************************************************************)
RECURSIVE generatePathTraversal(_, _, _, _, _, _, _, _, _)

\* The expression that reads the sub-field at the current level.
pathTraversalFromExpr(frameId, inputDocumentSlot, topLevelFieldSlot, fieldName, childIsLeafWithEmptyName) ==
    LET fromExpr ==
            IF topLevelFieldSlot # 0 THEN makeVariable(topLevelFieldSlot)
            ELSE makeFunction2("getField", makeVariable(inputDocumentSlot),
                               makeConstant(StrV(fieldName)))
    IN IF childIsLeafWithEmptyName
       THEN makeLocalBindE(frameId, fromExpr,
                makeIf(makeFunction1("isArray", makeLocalVar(frameId)),
                       makeLocalVar(frameId),
                       makeFunction2("getField", makeLocalVar(frameId),
                                     makeConstant(StrV("")))))
       ELSE fromExpr

\* Variant: the filter above the traverse stage lets a row pass only when the
\* predicate was true.
pathTraversalOutputFilterOnResult(in, fromBranch, loopJoinFromBranch, traverseInputSlot, isTraverseInputArraySlot, needsArrayCheck, h) ==
    LET g6 == generateFramesIf(stateContainsValue(h), in.g, 1)
        innerExpr ==
            IF stateContainsValue(h)
            THEN makeLocalBindE(g6.frame, in.e,
                    makeIf(makeVariable(isTraverseInputArraySlot),
                           makeInitialState(h, getBool(h, makeLocalVar(g6.frame))),
                           makeLocalVar(g6.frame)))
            ELSE in.e
        inner == projectEvalExpr(innerExpr, in.stage, g6)
        traverseOutputSlot == inner.g.slot + 1
        outputSlot == inner.g.slot + 2
        outputStage0 ==
            makeTraverseCombinator(h, fromBranch, inner.stage, traverseInputSlot,
                                   traverseOutputSlot, inner.slot)
        resultExpr == makeBinaryOp("fillEmpty", makeVariable(traverseOutputSlot),
                                   makeStateConst(h, FALSE))
    IN IF ~needsArrayCheck
       THEN [e |-> resultExpr, stage |-> outputStage0, g |-> generateSlots(inner.g, 1)]
       ELSE [e |-> makeVariable(outputSlot),
             stage |->
                 makeLoopJoin(
                     loopJoinFromBranch,
                     makeLimitSkip(
                         makeFilter(FALSE,
                                    makeProject(outputStage0, outputSlot, resultExpr),
                                    getBool(h, makeVariable(outputSlot))),
                         1)),
             g |-> generateSlots(inner.g, 2)]

\* The traverse stage over the two branches and, for needsArrayCheck, the
\* loop join / limit-1 / filter above it.  'in' is the [e, stage, g] of the
\* 'in' branch.
pathTraversalOutput(in, fromBranch, loopJoinFromBranch, traverseInputSlot, isTraverseInputArraySlot, needsArrayCheck, h) ==
    LET g6 == generateFramesIf(stateContainsValue(h), in.g, 1)
        innerExpr ==
            IF stateContainsValue(h)
            THEN makeLocalBindE(g6.frame, in.e,
                    makeIf(makeVariable(isTraverseInputArraySlot),
                           makeInitialState(h, getBool(h, makeLocalVar(g6.frame))),
                           makeLocalVar(g6.frame)))
            ELSE in.e
        inner == projectEvalExpr(innerExpr, in.stage, g6)
        traverseOutputSlot == inner.g.slot + 1
        outputSlot == inner.g.slot + 2
        outputStage0 ==
            makeTraverseCombinator(h, fromBranch, inner.stage, traverseInputSlot,
                                   traverseOutputSlot, inner.slot)
        resultExpr == makeBinaryOp("fillEmpty", makeVariable(traverseOutputSlot),
                                   makeStateConst(h, FALSE))
    IN IF ~needsArrayCheck
       THEN [e |-> resultExpr, stage |-> outputStage0, g |-> generateSlots(inner.g, 1)]
       ELSE [e |-> makeVariable(outputSlot),
             stage |->
                 makeLoopJoin(
                     loopJoinFromBranch,
                     makeLimitSkip(
                         makeFilter(FALSE,
                                    makeProject(outputStage0, outputSlot, resultExpr),
                                    makeBinaryOp("logicOr",
                                                 makeNot(makeVariable(isTraverseInputArraySlot)),
                                                 getBool(h, makeVariable(outputSlot)))),
                         1)),
             g |-> generateSlots(inner.g, 2)]

\* The 'from' and 'in' branches of the traverse stage of the current level.
pathTraversalBranches(g2, fromBranch0, inputSlot, needsArrayCheck, isLeafField, fp, level, p, mode, h) ==
    LET checkArrayElementsSlot == g2.slot + 1
        checkWholeArraySlot == g2.slot + 2
        g3 == generateSlotsIf(needsArrayCheck, g2, 3)
        traverseInputSlot == IF needsArrayCheck THEN g3.slot ELSE inputSlot
        fromBranch1 ==
            IF needsArrayCheck
            THEN makeUnion(<<makeProject(NullStage, checkArrayElementsSlot,
                                         makeVariable(inputSlot)),
                             makeProject(NullStage, checkWholeArraySlot,
                                         makeConstant(Nothing))>>,
                           <<checkArrayElementsSlot, checkWholeArraySlot>>,
                           traverseInputSlot)
            ELSE fromBranch0
        hasIsArraySlot == needsArrayCheck \/ ~isLeafField \/ stateContainsValue(h)
        g4 == generateSlotsIf(hasIsArraySlot, g3, 1)
        isTraverseInputArraySlot == g4.slot
        fromBranch ==
            IF hasIsArraySlot
            THEN makeProject(fromBranch1, isTraverseInputArraySlot,
                             makeFillEmptyFalse(
                                 makeFunction1("isArray", makeVariable(traverseInputSlot))))
            ELSE fromBranch1
        g5 == generateSlotsIf(needsArrayCheck, g4, 1)
        innerInputSlot == IF needsArrayCheck THEN g5.slot ELSE inputSlot
        innerBranch0 ==
            IF needsArrayCheck
            THEN makeProject(NullStage, innerInputSlot,
                             makeIf(makeVariable(isTraverseInputArraySlot),
                                    makeVariable(traverseInputSlot),
                                    makeVariable(inputSlot)))
            ELSE NullStage
        innerBranch ==
            IF ~isLeafField
            THEN makeFilter(FALSE, innerBranch0,
                            makeBinaryOp("logicOr",
                                         makeNot(makeVariable(isTraverseInputArraySlot)),
                                         makeFunction1("isObject",
                                                       makeVariable(innerInputSlot))))
            ELSE innerBranch0
        in == IF isLeafField
              THEN makePredicateCombinator(h, makePredicate(p, innerInputSlot, innerBranch, g5))
              ELSE generatePathTraversal(g5, innerBranch, innerInputSlot, 0, fp, level + 1,
                                         p, mode, h)
    IN pathTraversalOutput(in, fromBranch, fromBranch0, traverseInputSlot,
                           isTraverseInputArraySlot, needsArrayCheck, h)

generatePathTraversal(g, inputStage, inputDocumentSlot, topLevelFieldSlot, fp, level, p, mode, h) ==
    LET childIsLeafWithEmptyName ==
            level = numParts(fp) - 2 /\ isPathComponentEmpty(fp, level + 1)
        isLeafField == level = numParts(fp) - 1 \/ childIsLeafWithEmptyName
        needsArrayCheck == isLeafField /\ mode = kArrayAndItsElements
        inputSlot == g.slot + 1
        g2 == generateFramesIf(childIsLeafWithEmptyName, generateSlots(g, 1), 1)
        fromBranch ==
            makeProject(inputStage, inputSlot,
                        pathTraversalFromExpr(g2.frame, inputDocumentSlot, topLevelFieldSlot,
                                              getPart(fp, level), childIsLeafWithEmptyName))
    IN IF isLeafField /\ mode = kDoNotTraverseLeaf
       THEN makePredicate(p, inputSlot, fromBranch, g2)
       ELSE pathTraversalBranches(g2, fromBranch, inputSlot, needsArrayCheck, isLeafField,
                                  fp, level, p, mode, h)

(***************************************************************************)
(* generateShortCircuitingLogicalOp: the branches are tried in order and   *)
(* the first determining one (OR: true, AND: false) ends the evaluation.   *)
(* Branches without stages combine into one short-circuiting expression;   *)
(* otherwise every branch but the last gets a filter on its (negated, for  *)
(* AND) boolean and a constant result, and a limit-1 over the union of     *)
(* the branches returns the first row.  [e, stage, g].                     *)
(***************************************************************************)
RECURSIVE exprOnlyOp(_, _, _, _)
exprOnlyOp(op, branches, i, h) ==
    IF i = Len(branches) THEN getBool(h, branches[i].e)
    ELSE makeBinaryOp(op, getBool(h, branches[i].e), exprOnlyOp(op, branches, i + 1, h))

RECURSIVE unionBranches(_, _, _, _, _)
\* acc = [stages, slots, g]
unionBranches(op, branches, i, h, acc) ==
    IF i > Len(branches) THEN acc
    ELSE LET b == branches[i]
         IN IF i < Len(branches)
            THEN LET cond == IF op = "logicAnd" THEN makeNot(getBool(h, b.e))
                             ELSE getBool(h, b.e)
                     slot == acc.g.slot + 1
                     st == makeProject(makeFilter(FALSE, b.stage, cond), slot,
                                       makeStateConst(h, op = "logicOr"))
                 IN unionBranches(op, branches, i + 1, h,
                                  [stages |-> Append(acc.stages, st),
                                   slots |-> Append(acc.slots, slot),
                                   g |-> [acc.g EXCEPT !.slot = slot]])
            ELSE LET pr == projectEvalExpr(b.e, b.stage, acc.g)
                 IN unionBranches(op, branches, i + 1, h,
                                  [stages |-> Append(acc.stages, pr.stage),
                                   slots |-> Append(acc.slots, pr.slot),
                                   g |-> pr.g])

generateShortCircuitingLogicalOp(op, branches, g, h) ==
    IF Len(branches) = 1 THEN [e |-> branches[1].e, stage |-> branches[1].stage, g |-> g]
    ELSE IF \A i \in 1..Len(branches) : branches[i].stage.k = "null"
    THEN [e |-> makeState(h, exprOnlyOp(op, branches, 1, h)), stage |-> NullStage, g |-> g]
    ELSE LET u == unionBranches(op, branches, 1, h,
                                [stages |-> <<>>, slots |-> <<>>, g |-> g])
             outSlot == u.g.slot + 1
         IN [e |-> makeVariable(outSlot),
             stage |-> makeLimitSkip(makeUnion(u.stages, u.slots, outSlot), 1),
             g |-> [u.g EXCEPT !.slot = outSlot]]

(***************************************************************************)
(* MatchExpressionVisitorContext.  The fixed part S = [root, h, inputSlot, *)
(* slots, isFilterOverIxscan]; the part the walk changes c = [evalStack,   *)
(* outputSlot, g, params, err].  A frame of the evalStack is [stage,       *)
(* exprs, inputSlot, childOfElemMatchValue]; slot 0 stands for "no slot";  *)
(* err names the assertion that failed, or is "".                         *)
(***************************************************************************)
Frame(stage, inputSlot, childOfElemMatchValue) ==
    [stage |-> stage, exprs |-> <<>>, inputSlot |-> inputSlot,
     childOfElemMatchValue |-> childOfElemMatchValue]

RECURSIVE NodeAt(_, _)
NodeAt(n, at) == IF at = <<>> THEN n ELSE NodeAt(n.children[Head(at)], Tail(at))

\* The root node is an $and with at most 25 children: 'topLevelAnd'.
topLevelAnd(S) ==
    S.root.kind = "and" /\ numChildren(S.root) <= kMaxChildrenForTopLevelAndOptimization
\* Variant: every AND of at most 25 children is treated as the top-level AND.
isTopLevelAndAtAnyDepth(S, at) ==
    /\ NodeAt(S.root, at).kind = "and"
    /\ numChildren(NodeAt(S.root, at)) <= kMaxChildrenForTopLevelAndOptimization

isTopLevelAnd(S, at) == at = <<>> /\ topLevelAnd(S)

framesCount(c) == Len(c.evalStack)
topFrame(c) == c.evalStack[Len(c.evalStack)]
exprsCount(f) == Len(f.exprs)
emplaceFrame(c, stage, inputSlot, childOfElemMatchValue) ==
    [c EXCEPT !.evalStack = Append(@, Frame(stage, inputSlot, childOfElemMatchValue))]
setStage(c, stage) == [c EXCEPT !.evalStack[Len(c.evalStack)].stage = stage]
pushExpr(c, e) == [c EXCEPT !.evalStack[Len(c.evalStack)].exprs = Append(@, e)]
topExpr(c) == topFrame(c).exprs[Len(topFrame(c).exprs)]
dropExpr(c) ==
    [c EXCEPT !.evalStack[Len(c.evalStack)].exprs = SubSeq(@, 1, Len(@) - 1)]
dropFrame(c) == [c EXCEPT !.evalStack = SubSeq(@, 1, Len(@) - 1)]
Fail(c, code) == [c EXCEPT !.err = code]
slotId(c) == c.g.slot + 1
withSlot(c) == [c EXCEPT !.g.slot = @ + 1]

\* The last 'n' frames of the stack hold one expression each.
canPopFrames(c, n) ==
    /\ framesCount(c) > n
    /\ \A i \in (framesCount(c) - n + 1)..framesCount(c) : exprsCount(c.evalStack[i]) = 1

\* The popped frames without the std::reverse: newest first.
poppedBranchesNewestFirst(c, n) ==
    [i \in 1..n |->
        LET f == c.evalStack[framesCount(c) + 1 - i]
        IN [e |-> f.exprs[1], stage |-> f.stage]]

\* The (expression, stage) pairs of the last 'n' frames, oldest first: what
\* popping them one by one and reversing the vector yields.
poppedBranches(c, n) ==
    [i \in 1..n |->
        LET f == c.evalStack[framesCount(c) - n + i]
        IN [e |-> f.exprs[1], stage |-> f.stage]]
dropFrames(c, n) == [c EXCEPT !.evalStack = SubSeq(@, 1, Len(@) - n)]

(***************************************************************************)
(* generatePredicateImpl and the builders of the leaf predicates.          *)
(***************************************************************************)
\* PlanStageSlots::getIfExists for a kField slot: the slot, or 0.
getIfExists(slots, path) ==
    IF \E r \in slots : r.path = path
    THEN (CHOOSE r \in slots : r.path = path).slot
    ELSE 0

\* 'hasExpr': the caller supplied makePredicateExpr (generatePredicateExpr);
\* otherwise only makePredicate (generatePredicate).
\* frame.setStage(std::move(stage)); frame.pushExpr(std::move(expr)), with
\* the id generators as the generation left them.
pushPredicateResult(c, res) == pushExpr(setStage([c EXCEPT !.g = res.g], res.stage), res.e)

\* The expression r = [e, g] paired with the unchanged stage.
exprOnStage(r, stage) == [e |-> r.e, stage |-> stage, g |-> r.g]

\* The predicate applied directly to a slot.
predicateOnSlot(S, c, p, slot, useCombinator) ==
    IF useCombinator
    THEN makePredicateCombinator(S.h, makePredicate(p, slot, topFrame(c).stage, c.g))
    ELSE makePredicate(p, slot, topFrame(c).stage, c.g)

generatePredicateImpl(S, c, path, p, hasExpr, mode, useCombinator, matchesNothing) ==
    LET frame == topFrame(c)
        direct(slot) == predicateOnSlot(S, c, p, slot, useCombinator)
        isFieldPathOnRootDoc == S.inputSlot = 0 \/ S.inputSlot = frame.inputSlot
        fullPathSlot ==
            IF isFieldPathOnRootDoc /\ S.hasSlots /\ S.isFilterOverIxscan /\ path # <<>>
            THEN getIfExists(S.slots, path) ELSE 0
        topLevelFieldSlot ==
            IF isFieldPathOnRootDoc /\ S.hasSlots
            THEN getIfExists(S.slots, <<getPart(path, 0)>>) ELSE 0
        res ==
            IF frame.childOfElemMatchValue THEN direct(frame.inputSlot)
            ELSE IF fullPathSlot # 0 THEN direct(fullPathSlot)
            ELSE IF hasExpr /\ ~stateContainsValue(S.h)
            THEN exprOnStage(generateTraverseF(c.g,
                                               IF frame.inputSlot # 0
                                               THEN makeVariable(frame.inputSlot) ELSE NoExpr,
                                               topLevelFieldSlot, path, 0, p,
                                               matchesNothing, mode),
                             frame.stage)
            ELSE generatePathTraversal(c.g, frame.stage, frame.inputSlot, topLevelFieldSlot,
                                       path, 0, p, mode, S.h)
    IN IF frame.childOfElemMatchValue /\ frame.inputSlot = 0 THEN Fail(c, "tassert 7097204")
       ELSE IF ~frame.childOfElemMatchValue /\ fullPathSlot = 0
               /\ frame.inputSlot = 0 /\ topLevelFieldSlot = 0
       THEN Fail(c, "tassert 7097205")
       ELSE pushPredicateResult(c, res)

generatePredicate(S, c, path, p, mode, useCombinator, matchesNothing) ==
    generatePredicateImpl(S, c, path, p, FALSE, mode, useCombinator, matchesNothing)

\* Variant: the expression form of the predicate is not handed on.
generatePredicateExprAsStage(S, c, path, p, mode, useCombinator, matchesNothing) ==
    generatePredicateImpl(S, c, path, p, FALSE, mode, useCombinator, matchesNothing)

generatePredicateExpr(S, c, path, p, mode, useCombinator, matchesNothing) ==
    generatePredicateImpl(S, c, path, p, TRUE, mode, useCombinator, matchesNothing)

generateAlwaysBoolean(S, c, value) == pushExpr(c, makeStateConst(S.h, value))

\* The callback of the leaf at address 'at'.
leafPredicate(S, c, at, paramSlot) ==
    ExprPredicate(NodeAt(S.root, at), at, S.h, topFrame(c).inputSlot # 0, paramSlot)

\* Variant: a negative size is lowered like any other.
generateArraySizeUnchecked(S, c, at) ==
    generatePredicateExpr(S, c, NodeAt(S.root, at).path, leafPredicate(S, c, at, 0),
                          kDoNotTraverseLeaf, TRUE, FALSE)

generateArraySize(S, c, at) ==
    LET matchExpr == NodeAt(S.root, at)
        size == matchExpr.rhs.i
        \* registerInputParamSlot: a slot bound to the parameter's value.
        inputParamSlotId == IF matchExpr.param THEN slotId(c) ELSE 0
        c1 == IF matchExpr.param
              THEN [withSlot(c) EXCEPT
                        !.params = Append(@, [slot |-> slotId(c), v |-> matchExpr.rhs])]
              ELSE c
    IN IF size < 0 /\ inputParamSlotId = 0
       THEN generateAlwaysBoolean(S, c1, FALSE)
       ELSE generatePredicateExpr(S, c1, matchExpr.path,
                                  leafPredicate(S, c1, at, inputParamSlotId),
                                  kDoNotTraverseLeaf, TRUE, FALSE)

generateComparison(S, c, at, binaryOp) ==
    LET expr == NodeAt(S.root, at)
    IN generatePredicateExpr(S, c, expr.path, leafPredicate(S, c, at, 0),
                             comparisonTraversalMode(expr.rhs), TRUE,
                             comparisonMatchesNothing(expr.rhs, binaryOp))

\* Variant: a frame is pushed whatever the number of children.
pushFrameForEveryChild(c, n) == emplaceFrame(c, NullStage, topFrame(c).inputSlot, FALSE)

pushFrameForLogicalExpressionChild(c, n) ==
    IF n <= 1 THEN c
    ELSE emplaceFrame(c, NullStage, topFrame(c).inputSlot, FALSE)

\* Variant: an operator without children is lowered to the constant false.
buildLogicalExpressionEmptyIsFalse(S, c, op, n) ==
    IF n = 0 THEN generateAlwaysBoolean(S, c, FALSE)
    ELSE IF n = 1 THEN c
    ELSE IF ~canPopFrames(c, n) THEN Fail(c, "invariant popFrame")
    ELSE LET r == generateShortCircuitingLogicalOp(op, poppedBranches(c, n), c.g, S.h)
             c1 == [dropFrames(c, n) EXCEPT !.g = r.g]
         IN setStage(pushExpr(c1, r.e), makeLoopJoin(topFrame(c1).stage, r.stage))

buildLogicalExpression(S, c, op, n) ==
    IF n = 0 THEN generateAlwaysBoolean(S, c, op = "logicAnd")
    ELSE IF n = 1 THEN c
    ELSE IF ~canPopFrames(c, n) THEN Fail(c, "invariant popFrame")
    ELSE LET r == generateShortCircuitingLogicalOp(op, poppedBranches(c, n), c.g, S.h)
             c1 == [dropFrames(c, n) EXCEPT !.g = r.g]
         IN setStage(pushExpr(c1, r.e), makeLoopJoin(topFrame(c1).stage, r.stage))

projectCurrentExprToOutputSlot(c) ==
    IF c.outputSlot # 0 THEN Fail(c, "tassert 5291405")
    ELSE IF exprsCount(topFrame(c)) = 0 THEN Fail(c, "invariant popExpr")
    ELSE LET r == projectEvalExpr(topExpr(c), topFrame(c).stage, c.g)
         IN setStage(pushExpr([dropExpr(c) EXCEPT !.g = r.g, !.outputSlot = r.slot],
                              makeVariable(r.slot)),
                     r.stage)

\* The filter of a child of the top-level AND left out.
filterOnTopExprDropped(S, c) ==
    IF exprsCount(topFrame(c)) = 0 THEN Fail(c, "invariant exprsCount") ELSE dropExpr(c)

\* frame.setStage(makeFilter<false>(frame.extractStage(), getBool(frame.popExpr())))
filterOnTopExpr(S, c) ==
    IF exprsCount(topFrame(c)) = 0 THEN Fail(c, "invariant exprsCount")
    ELSE setStage(dropExpr(c), makeFilter(FALSE, topFrame(c).stage, getBool(S.h, topExpr(c))))

\* Variant: the negated state keeps an index derived from the child's state.
negateTopExprKeepingIndex(S, c) ==
    IF c.err # "" THEN c
    ELSE IF exprsCount(topFrame(c)) = 0 THEN Fail(c, "invariant popExpr")
    ELSE pushExpr(dropExpr(c),
                  IF stateContainsValue(S.h)
                  THEN makeIf(getBool(S.h, topExpr(c)),
                              makeConstant(IdxState(FALSE, -1)),
                              makeFunction2("foldIndex", topExpr(c),
                                            makeConstant(IdxState(TRUE, -1))))
                  ELSE makeNot(getBool(S.h, topExpr(c))))

\* frame.pushExpr(makeState(makeNot(getBool(frame.popExpr()))))
negateTopExpr(S, c) ==
    IF c.err # "" THEN c
    ELSE IF exprsCount(topFrame(c)) = 0 THEN Fail(c, "invariant popExpr")
    ELSE pushExpr(dropExpr(c), makeState(S.h, makeNot(getBool(S.h, topExpr(c)))))

(***************************************************************************)
(* The three visitors.  'at' is the address of the visited node.           *)
(***************************************************************************)
UnsupportedKinds == {"geo", "geoNear", "internalSchemaXor"}

\* Variant: the pre-visit of a $not pushes a frame, which no visit pops.
MatchExpressionPreVisitorFrameForNot(S, c, at) ==
    LET expr == NodeAt(S.root, at)
    IN CASE expr.kind = "and" ->
              IF isTopLevelAnd(S, at) THEN c
              ELSE pushFrameForLogicalExpressionChild(c, numChildren(expr))
         [] expr.kind \in {"or", "nor"} ->
              pushFrameForLogicalExpressionChild(c, numChildren(expr))
         [] expr.kind = "elemMatchObject" ->
              emplaceFrame(withSlot(c), NullStage, slotId(c), FALSE)
         [] expr.kind = "elemMatchValue" ->
              emplaceFrame(withSlot(c), NullStage, slotId(c), TRUE)
         [] expr.kind = "not" -> emplaceFrame(c, NullStage, topFrame(c).inputSlot, FALSE)
         [] expr.kind \in UnsupportedKinds -> Fail(c, "tassert 4822878")
         [] OTHER -> c

MatchExpressionPreVisitor(S, c, at) ==
    LET expr == NodeAt(S.root, at)
    IN CASE expr.kind = "and" ->
              IF isTopLevelAnd(S, at) THEN c
              ELSE pushFrameForLogicalExpressionChild(c, numChildren(expr))
         [] expr.kind \in {"or", "nor"} ->
              pushFrameForLogicalExpressionChild(c, numChildren(expr))
         [] expr.kind = "elemMatchObject" ->
              emplaceFrame(withSlot(c), NullStage, slotId(c), FALSE)
         [] expr.kind = "elemMatchValue" ->
              emplaceFrame(withSlot(c), NullStage, slotId(c), TRUE)
         [] expr.kind \in UnsupportedKinds -> Fail(c, "tassert 4822878")
         [] OTHER -> c

\* Variant: between the children of the top-level AND the state of the
\* child lowered last is put in the output slot while the slot is free.
MatchExpressionInVisitorKeepsState(S, c, at) ==
    LET expr == NodeAt(S.root, at)
    IN CASE expr.kind = "and" ->
              IF isTopLevelAnd(S, at)
              THEN filterOnTopExpr(S, IF stateContainsValue(S.h) /\ c.outputSlot = 0
                                      THEN projectCurrentExprToOutputSlot(c) ELSE c)
              ELSE pushFrameForLogicalExpressionChild(c, numChildren(expr))
         [] expr.kind \in {"or", "nor"} ->
              pushFrameForLogicalExpressionChild(c, numChildren(expr))
         [] expr.kind = "elemMatchValue" ->
              emplaceFrame(c, NullStage, topFrame(c).inputSlot, TRUE)
         [] OTHER -> c

\* Variant: no frame is pushed between two children of an $or or a $nor.
MatchExpressionInVisitorOrSharesFrame(S, c, at) ==
    LET expr == NodeAt(S.root, at)
    IN CASE expr.kind = "and" ->
              IF isTopLevelAnd(S, at) THEN filterOnTopExpr(S, c)
              ELSE pushFrameForLogicalExpressionChild(c, numChildren(expr))
         [] expr.kind = "elemMatchValue" ->
              emplaceFrame(c, NullStage, topFrame(c).inputSlot, TRUE)
         [] OTHER -> c

MatchExpressionInVisitor(S, c, at) ==
    LET expr == NodeAt(S.root, at)
    IN CASE expr.kind = "and" ->
              IF isTopLevelAnd(S, at) THEN filterOnTopExpr(S, c)
              ELSE pushFrameForLogicalExpressionChild(c, numChildren(expr))
         [] expr.kind \in {"or", "nor"} ->
              pushFrameForLogicalExpressionChild(c, numChildren(expr))
         [] expr.kind = "elemMatchValue" ->
              emplaceFrame(c, NullStage, topFrame(c).inputSlot, TRUE)
         [] OTHER -> c

\* Variant: the child is applied to every element, scalars included.
visitElemMatchObjectAnyElement(S, c, at) ==
    LET matchExpr == NodeAt(S.root, at)
        childInputSlot == topFrame(c).inputSlot
        filter == projectEvalExpr(topExpr(c), topFrame(c).stage, c.g)
        isObjectOrArrayExpr ==
            makeBinaryOp("logicOr",
                         makeFunction1("isObject", makeVariable(childInputSlot)),
                         makeFunction1("isArray", makeVariable(childInputSlot)))
        predicateStage == filter.stage
    IN IF childInputSlot = 0 THEN Fail(c, "tassert 5273405")
       ELSE IF ~canPopFrames(c, 1) THEN Fail(c, "invariant popFrame")
       ELSE generatePredicate(S, [dropFrame(c) EXCEPT !.g = filter.g], matchExpr.path,
                              ElemMatchPredicate(S.h, filter.slot, predicateStage,
                                                 childInputSlot),
                              kDoNotTraverseLeaf, FALSE, FALSE)

visitElemMatchObject(S, c, at) ==
    LET matchExpr == NodeAt(S.root, at)
        childInputSlot == topFrame(c).inputSlot
        filter == projectEvalExpr(topExpr(c), topFrame(c).stage, c.g)
        isObjectOrArrayExpr ==
            makeBinaryOp("logicOr",
                         makeFunction1("isObject", makeVariable(childInputSlot)),
                         makeFunction1("isArray", makeVariable(childInputSlot)))
        predicateStage == makeFilter(TRUE, filter.stage, isObjectOrArrayExpr)
    IN IF childInputSlot = 0 THEN Fail(c, "tassert 5273405")
       ELSE IF ~canPopFrames(c, 1) THEN Fail(c, "invariant popFrame")
       ELSE generatePredicate(S, [dropFrame(c) EXCEPT !.g = filter.g], matchExpr.path,
                              ElemMatchPredicate(S.h, filter.slot, predicateStage,
                                                 childInputSlot),
                              kDoNotTraverseLeaf, FALSE, FALSE)

visitElemMatchValue(S, c, at) ==
    LET matchExpr == NodeAt(S.root, at)
        n == numChildren(matchExpr)
        childInputSlot == topFrame(c).inputSlot
        r == generateShortCircuitingLogicalOp("logicAnd", poppedBranches(c, n), c.g, S.h)
        filter == projectEvalExpr(r.e, r.stage, r.g)
    IN IF childInputSlot = 0 THEN Fail(c, "tassert 5273406")
       ELSE IF ~canPopFrames(c, n) THEN Fail(c, "invariant popFrame")
       ELSE generatePredicate(S, [dropFrames(c, n) EXCEPT !.g = filter.g], matchExpr.path,
                              ElemMatchPredicate(S.h, filter.slot, filter.stage,
                                                 childInputSlot),
                              kDoNotTraverseLeaf, FALSE, FALSE)

visitExists(S, c, at) ==
    generatePredicateExpr(S, c, NodeAt(S.root, at).path, leafPredicate(S, c, at, 0),
                          kDoNotTraverseLeaf, TRUE, FALSE)

MatchExpressionPostVisitor(S, c, at) ==
    LET expr == NodeAt(S.root, at)
    IN CASE expr.kind = "alwaysFalse" -> generateAlwaysBoolean(S, c, FALSE)
         [] expr.kind = "alwaysTrue" -> generateAlwaysBoolean(S, c, TRUE)
         [] expr.kind = "and" ->
              IF isTopLevelAnd(S, at)
              THEN IF numChildren(expr) >= 1
                   THEN LET c1 == IF stateContainsValue(S.h)
                                  THEN projectCurrentExprToOutputSlot(c) ELSE c
                        IN IF c1.err # "" THEN c1 ELSE filterOnTopExpr(S, c1)
                   ELSE c
              ELSE buildLogicalExpression(S, c, "logicAnd", numChildren(expr))
         [] expr.kind = "elemMatchObject" -> visitElemMatchObject(S, c, at)
         [] expr.kind = "elemMatchValue" -> visitElemMatchValue(S, c, at)
         [] expr.kind \in ComparisonKinds -> generateComparison(S, c, at, BinaryOpOf(expr.kind))
         [] expr.kind = "exists" -> visitExists(S, c, at)
         [] expr.kind = "nor" ->
              negateTopExpr(S, buildLogicalExpression(S, c, "logicOr", numChildren(expr)))
         [] expr.kind = "not" -> negateTopExpr(S, c)
         [] expr.kind = "or" -> buildLogicalExpression(S, c, "logicOr", numChildren(expr))
         [] expr.kind = "size" -> generateArraySize(S, c, at)
         [] OTHER -> c

\* done() without the filter on the boolean of the pending expression.
doneUnfiltered(S, c) ==
    LET c1 == IF exprsCount(topFrame(c)) > 0 /\ stateContainsValue(S.h)
              THEN projectCurrentExprToOutputSlot(c) ELSE c
        c2 == IF exprsCount(topFrame(c)) = 0 \/ c1.err # "" THEN c1 ELSE dropExpr(c1)
        r == projectValueCombinator(S.h, c2.outputSlot, topFrame(c2).stage, c2.g)
    IN IF c2.outputSlot # 0 /\ stateContainsValue(S.h)
       THEN [c |-> [c2 EXCEPT !.g = r.g], slot |-> r.slot, stage |-> r.stage]
       ELSE [c |-> c2, slot |-> 0, stage |-> topFrame(c2).stage]

(***************************************************************************)
(* MatchExpressionVisitorContext::done: [c, slot, stage], slot 0 for none. *)
(***************************************************************************)
done(S, c) ==
    LET c1 == IF exprsCount(topFrame(c)) > 0 /\ stateContainsValue(S.h)
              THEN projectCurrentExprToOutputSlot(c) ELSE c
        c2 == IF exprsCount(topFrame(c)) = 0 \/ c1.err # "" THEN c1
              ELSE IF exprsCount(topFrame(c1)) # 1 THEN Fail(c1, "invariant exprsCount")
              ELSE filterOnTopExpr(S, c1)
        r == projectValueCombinator(S.h, c2.outputSlot, topFrame(c2).stage, c2.g)
    IN IF framesCount(c) # 1
       THEN [c |-> Fail(c, "invariant framesCount"), slot |-> 0, stage |-> NullStage]
       ELSE IF c2.err # "" THEN [c |-> c2, slot |-> 0, stage |-> NullStage]
       ELSE IF c2.outputSlot # 0 /\ stateContainsValue(S.h)
       THEN [c |-> [c2 EXCEPT !.g = r.g], slot |-> r.slot, stage |-> r.stage]
       ELSE [c |-> c2, slot |-> 0, stage |-> topFrame(c2).stage]

(***************************************************************************)
(* tree_walker::walk<true, MatchExpression>: preVisit of the node, then    *)
(* its children in order with inVisit of the node between two children,    *)
(* then postVisit of the node.  The agenda is the sequence of visits still *)
(* to make, each [op, at].                                                 *)
(***************************************************************************)
RECURSIVE childVisits(_, _, _)
childVisits(at, n, i) ==
    IF i > n THEN <<[op |-> "post", at |-> at]>>
    ELSE (IF i > 1 THEN <<[op |-> "in", at |-> at]>> ELSE <<>>)
         \o <<[op |-> "pre", at |-> Append(at, i)]>>
         \o childVisits(at, n, i + 1)

\* The agenda after the visit at its head has been made.
walkNext(S, agenda) ==
    LET item == Head(agenda)
    IN IF item.op = "pre"
       THEN childVisits(item.at, numChildren(NodeAt(S.root, item.at)), 1) \o Tail(agenda)
       ELSE Tail(agenda)

visit(S, c, item) ==
    CASE item.op = "pre" -> MatchExpressionPreVisitor(S, c, item.at)
      [] item.op = "in" -> MatchExpressionInVisitor(S, c, item.at)
      [] item.op = "post" -> MatchExpressionPostVisitor(S, c, item.at)

RECURSIVE walk(_, _, _)
walk(S, c, agenda) ==
    IF agenda = <<>> \/ c.err # "" THEN c
    ELSE walk(S, visit(S, c, Head(agenda)), walkNext(S, agenda))

(***************************************************************************)
(* generateFilter.                                                         *)
(***************************************************************************)
\* The slot of the input document, and the kField slots of an index scan.
rootInputSlot == 1
kFieldSlots == {[path |-> <<"a">>, slot |-> 2], [path |-> <<"b">>, slot |-> 3]}
keyFields == <<"a", "b">>
\* The id generators start after the slots of the input.
firstIds == [slot |-> 3, frame |-> 0]

\* The fixed part of the context of a call of generateFilter.
Static(r, track, ixscan) ==
    [root |-> r, h |-> track,
     inputSlot |-> IF ixscan THEN 0 ELSE rootInputSlot,
     hasSlots |-> ixscan, slots |-> IF ixscan THEN kFieldSlots ELSE {},
     isFilterOverIxscan |-> ixscan]

NoContext ==
    [evalStack |-> <<>>, outputSlot |-> 0, g |-> firstIds, params |-> <<>>, err |-> ""]

\* The constructor of MatchExpressionVisitorContext.
MatchExpressionVisitorContext(S, inputStage) ==
    IF S.inputSlot = 0 /\ ~S.hasSlots THEN Fail(NoContext, "tassert 7097201")
    ELSE emplaceFrame(NoContext, inputStage, S.inputSlot, FALSE)

makeNewObj(fields, slotsOf) == [k |-> "newObj", fields |-> fields, slots |-> slotsOf]

applyClassicMatcher(r, stage, inputSlot) ==
    makeFilter(FALSE, stage,
               makeFunction2("applyClassicMatcher", makeConstant(r), makeVariable(inputSlot)))

applyClassicMatcherOverIndexScan(r, stage, slots) ==
    makeFilter(FALSE, stage,
               makeFunction2("applyClassicMatcher", makeConstant(r),
                             makeNewObj(keyFields,
                                        [i \in 1..Len(keyFields) |->
                                            getIfExists(slots, <<keyFields[i]>>)])))

\* What generateFilter returns: [err, slot, stage].
returnOf(err, slot, stage) == [err |-> err, slot |-> slot, stage |-> stage]
returnOfDone(d) == returnOf(d.c.err, d.slot, d.stage)

\* The walk of the tree from the constructed context, then done().
walkAndDone(S, c0) ==
    IF c0.err # "" THEN returnOf(c0.err, 0, NullStage)
    ELSE returnOfDone(done(S, walk(S, c0, <<[op |-> "pre", at |-> <<>>]>>)))

\* Variant: an AND without children is walked like any other root.
returnsEarlyEmptyAndWalked(r, track, ixscan, sbeFull) ==
    \/ ixscan /\ track
    \/ ~sbeFull

\* generateFilter returns before it constructs the context.
returnsEarly(r, track, ixscan, sbeFull) ==
    \/ ixscan /\ track
    \/ r.kind = "and" /\ numChildren(r) = 0
    \/ ~sbeFull

\* Variant: the empty AND is looked for before the two flags are checked.
earlyReturnEmptyAndFirst(r, track, ixscan) ==
    IF r.kind = "and" /\ numChildren(r) = 0 THEN returnOf("", 0, InputStage)
    ELSE IF ixscan /\ track THEN returnOf("tassert 7097206", 0, NullStage)
    ELSE IF track THEN returnOf("tassert 6681403", 0, NullStage)
    ELSE returnOf("", 0,
                  IF ixscan
                  THEN applyClassicMatcherOverIndexScan(r, InputStage, kFieldSlots)
                  ELSE applyClassicMatcher(r, InputStage, rootInputSlot))

\* What it returns then.
earlyReturn(r, track, ixscan) ==
    IF ixscan /\ track THEN returnOf("tassert 7097206", 0, NullStage)
    ELSE IF r.kind = "and" /\ numChildren(r) = 0 THEN returnOf("", 0, InputStage)
    ELSE IF track THEN returnOf("tassert 6681403", 0, NullStage)
    ELSE returnOf("", 0,
                  IF ixscan
                  THEN applyClassicMatcherOverIndexScan(r, InputStage, kFieldSlots)
                  ELSE applyClassicMatcher(r, InputStage, rootInputSlot))

\* The whole of generateFilter.
generateFilter(r, track, ixscan, sbeFull) ==
    IF returnsEarly(r, track, ixscan, sbeFull) THEN earlyReturn(r, track, ixscan)
    ELSE walkAndDone(Static(r, track, ixscan),
                     MatchExpressionVisitorContext(Static(r, track, ixscan), InputStage))

(***************************************************************************)
(* The run of a returned plan on one document.                             *)
(***************************************************************************)
\* The key of an index scan holds null for a missing field.
keyOf(v) == IF v.t = "nothing" THEN Null ELSE v

RECURSIVE bindParams(_, _, _)
bindParams(env, params, i) ==
    IF i > Len(params) THEN env
    ELSE bindParams(BindSlot(env, params[i].slot, params[i].v), params, i + 1)

\* The environment of the input stage: the document in the input slot, or
\* the fields of the index key in the kField slots; the registered
\* parameter slots hold the parameters' values.
InputEnv(ixscan, params, d) ==
    bindParams(IF ixscan
               THEN BindSlot(BindSlot(EmptyEnv, 2, keyOf(d.f["a"])), 3, keyOf(d.f["b"]))
               ELSE BindSlot(EmptyEnv, rootInputSlot, d),
               params, 1)

\* [admitted, out, ev]: whether the stage returns a row for the document,
\* the value of the output slot in that row, the leaf evaluations made.
planOutcome(r, slot) ==
    [admitted |-> r.rows # <<>>,
     out |-> IF r.rows # <<>> /\ slot # 0 THEN SlotVal(r.rows[1], slot) ELSE Nothing,
     ev |-> r.ev]
RunPlan(stage, slot, env) == planOutcome(EvalS(stage, env, 1), slot)

\* The value of expression e over the first row of the stage, or NoRow.
NoRow == [t |-> "norow"]
valueOnRows(e, r) == IF r.rows = <<>> THEN NoRow ELSE EvalE(e, r.rows[1]).v
ValueOn(pair, env) == valueOnRows(pair.e, EvalS(pair.stage, env, 1))

(***************************************************************************)
(* The predicate trees and the documents of the model.                     *)
(***************************************************************************)
SeqsUpTo(S, n) == UNION {[1..k -> S] : k \in 0..n}

Leaf(kind, path, rhs) == Node(kind, path, rhs, FALSE, <<>>)
Logical(kind, children) == Node(kind, <<>>, Nothing, FALSE, children)
ElemMatch(kind, path, children) == Node(kind, path, Nothing, FALSE, children)

ComparisonRoots ==
    {Leaf(k, <<"a">>, r) :
        k \in ComparisonKinds,
        r \in {IntV(2), IntV(5), Null, ArrV(<<IntV(1), IntV(2)>>),
               ArrV(<<IntV(1), IntV(2), IntV(3)>>)}}
    \cup {Leaf(k, <<"a", "b">>, r) : k \in ComparisonKinds, r \in {IntV(5), Null}}

SizeRoots ==
    {Node("size", <<"a">>, IntV(n), param, <<>>) : n \in {-1, 0, 2}, param \in BOOLEAN}

ExistsRoots == {Leaf("exists", <<"a">>, Nothing), Leaf("exists", <<"a", "b">>, Nothing)}

\* The children of an $elemMatch (object): predicates on the field b of
\* the element, one of which matches a missing field.
ObjectChildren ==
    {Leaf("eq", <<"b">>, IntV(5)), Leaf("eq", <<"b">>, Null),
     Leaf("exists", <<"b">>, Nothing), Leaf("alwaysTrue", <<>>, Nothing),
     Logical("not", <<Leaf("eq", <<"b">>, IntV(5))>>)}
ElemMatchObjectRoots == {ElemMatch("elemMatchObject", <<"a">>, <<ch>>) : ch \in ObjectChildren}

\* The children of an $elemMatch (value): predicates on the element itself.
ValueChildren ==
    {Leaf("gt", <<>>, IntV(5)), Leaf("lt", <<>>, IntV(10)),
     Logical("not", <<Leaf("gt", <<>>, IntV(5))>>),
     Logical("not", <<Logical("and", <<Leaf("gt", <<>>, IntV(5)),
                                       Leaf("lt", <<>>, IntV(10))>>)>>)}
ElemMatchValueRoots ==
    {ElemMatch("elemMatchValue", <<"a">>, cs) : cs \in SeqsUpTo(ValueChildren, 2) \ {<<>>}}

\* AND, OR and NOR of up to MaxChildren leaves.
LogicLeaves == {Leaf("eq", <<"a">>, IntV(2)), Leaf("eq", <<"b">>, IntV(5))}
LogicalRoots ==
    {Logical(k, cs) : k \in {"and", "or", "nor"}, cs \in SeqsUpTo(LogicLeaves, MaxChildren)}

NestedRoots ==
    {Logical("not", <<l>>) : l \in LogicLeaves \cup {Leaf("alwaysFalse", <<>>, Nothing)}}
    \cup {Logical(k, <<Logical(j, <<Leaf("eq", <<"a">>, IntV(2)),
                                    Leaf("eq", <<"b">>, IntV(5))>>),
                       Leaf("exists", <<"a">>, Nothing)>>) :
            k \in {"and", "or", "nor"}, j \in {"and", "or", "nor"}}
    \cup {Logical("and", <<ElemMatch("elemMatchValue", <<"a">>, <<Leaf("gt", <<>>, IntV(5))>>),
                          Leaf("eq", <<"b">>, IntV(5))>>),
          Logical("and", <<Leaf("eq", <<"b">>, IntV(5)),
                          ElemMatch("elemMatchValue", <<"a">>, <<Leaf("gt", <<>>, IntV(5))>>)>>),
          Leaf("alwaysTrue", <<>>, Nothing), Leaf("alwaysFalse", <<>>, Nothing)}

\* Kinds this compiler does not lower.
OtherRoots ==
    {Leaf("geo", <<"a">>, Nothing), Leaf("internalBucketGeoWithin", <<"a">>, Nothing),
     Logical("and", <<Leaf("eq", <<"a">>, IntV(2)), Leaf("geo", <<"a">>, Nothing)>>),
     Logical("not", <<Leaf("internalBucketGeoWithin", <<"a">>, Nothing)>>)}

\* Trees of AND, OR, NOR and NOT over always-true / always-false leaves:
\* every operator over up to MaxChildren leaves, and operators over
\* operators of no, one and two children.
BoolLeaves == {Leaf("alwaysTrue", <<>>, Nothing), Leaf("alwaysFalse", <<>>, Nothing)}
BoolOperators ==
    {Logical(k, cs) : k \in {"and", "or", "nor"}, cs \in SeqsUpTo(BoolLeaves, MaxChildren)}
    \cup {Logical("not", <<l>>) : l \in BoolLeaves}
BoolInner ==
    {Logical(k, cs) : k \in {"and", "or", "nor"}, cs \in SeqsUpTo(BoolLeaves, 1)}
    \cup {Logical("not", <<l>>) : l \in BoolLeaves}
    \cup {Logical(k, <<Leaf("alwaysTrue", <<>>, Nothing), Leaf("alwaysFalse", <<>>, Nothing)>>) :
            k \in {"and", "or", "nor"}}
BoolNested ==
    {Logical(k, <<x>>) : k \in {"and", "or", "nor", "not"}, x \in BoolInner}
    \cup {Logical(k, <<x, l>>) : k \in {"and", "or", "nor"}, x \in BoolInner, l \in BoolLeaves}
    \cup {Logical(k, <<Logical("not", <<Logical(j, <<x, Logical(j, <<>>)>>)>>),
                       Leaf("alwaysFalse", <<>>, Nothing)>>) :
            k \in {"and", "or", "nor"}, j \in {"and", "or", "nor"},
            x \in {Logical("nor", <<>>), Logical("and", <<Leaf("alwaysTrue", <<>>, Nothing)>>)}}
BooleanRoots == BoolOperators \cup BoolNested

\* An AND of as many children as the top-level optimisation accepts, and an
\* AND of one child more.
WideAnd(n) == Logical("and", [i \in 1..n |-> Leaf("alwaysTrue", <<>>, Nothing)])
WideAndRoots ==
    {WideAnd(kMaxChildrenForTopLevelAndOptimization),
     WideAnd(kMaxChildrenForTopLevelAndOptimization + 1)}

Roots ==
    ComparisonRoots \cup SizeRoots \cup ExistsRoots \cup ElemMatchObjectRoots
    \cup ElemMatchValueRoots \cup LogicalRoots \cup NestedRoots \cup OtherRoots
    \cup BooleanRoots \cup WideAndRoots

\* The predicates of a filter over an index scan: leaves over the key.
IxscanRoots ==
    {Leaf(k, <<"a">>, r) : k \in ComparisonKinds, r \in {IntV(2), Null}}
    \cup {Logical("and", <<>>), Leaf("exists", <<"b">>, Nothing)}

ElemPool == {IntV(2), IntV(10), ObjB(IntV(5)), ArrV(<<IntV(1), IntV(2)>>)}
Arrays == {ArrV(s) : s \in SeqsUpTo(ElemPool, MaxArrayLen)}
ExampleArrays ==
    {ArrV(<<IntV(1), IntV(2), IntV(3)>>), ArrV(<<IntV(3), IntV(10)>>), ArrV(<<IntV(5)>>),
     ArrV(<<ArrV(<<IntV(1), IntV(3)>>)>>), ArrV(<<ObjB(Null)>>), ArrV(<<ArrV(<<IntV(5)>>)>>)}
FieldValues ==
    {Nothing, Null, IntV(2), IntV(5), IntV(10), ObjB(Nothing), ObjB(Null), ObjB(IntV(5)),
     ObjB(ArrV(<<IntV(5)>>))}
    \cup Arrays \cup ExampleArrays
Docs ==
    {ObjA(v) : v \in FieldValues}
    \cup {ObjV([NoFields EXCEPT !["a"] = v, !["b"] = IntV(5)]) :
            v \in {Nothing, IntV(2), ArrV(<<IntV(10), IntV(2)>>)}}
\* The keys of the index scan hold no arrays.
KeyDocs == {ObjA(v) : v \in {Nothing, Null, IntV(2), IntV(5)}}

(***************************************************************************)
(* The state machine: one call of generateFilter, then one run of the      *)
(* returned plan.                                                          *)
(***************************************************************************)
VARIABLES root, trackIndex, isFilterOverIxscan, gFeatureFlagSbeFull,
          context, agenda, pc, pending, result, doc, outcome

\* The state of one call of EncryptedPredicate::rewrite
\* (mongo/db/query/fle/encrypted_predicate.h): the scan mode of the
\* rewriter, the expression handed in, what the two virtual rewrites of the
\* predicate do on that expression, the position in rewrite(), the calls
\* made so far and what rewrite() returned or threw.
VARIABLES scanMode, rewriteExpr, tagDisjunction, runtimeComparison,
          rewritePc, calls, rewritten

\* The state of the routing table tests
\* (mongo/s/routing_table_history_test.cpp): the chunk vector handed to
\* makeNew or makeUpdated, the chunks of the RoutingTableHistory that exists,
\* the position in the test, the error code of the last call and the number
\* of calls of makeUpdated so far.
VARIABLES chunks, rt, routingPc, routingError, updates

routingVars == <<chunks, rt, routingPc, routingError, updates>>
filterVars == <<root, trackIndex, isFilterOverIxscan, gFeatureFlagSbeFull,
                context, agenda, pc, pending, result, doc, outcome,
                chunks, rt, routingPc, routingError, updates>>
rewriteVars == <<scanMode, rewriteExpr, tagDisjunction, runtimeComparison,
                 rewritePc, calls, rewritten,
                 chunks, rt, routingPc, routingError, updates>>
vars == <<root, trackIndex, isFilterOverIxscan, gFeatureFlagSbeFull,
          context, agenda, pc, pending, result, doc, outcome,
          scanMode, rewriteExpr, tagDisjunction, runtimeComparison,
          rewritePc, calls, rewritten,
          chunks, rt, routingPc, routingError, updates>>

\* No routing table is being built.
RoutingIdle ==
    /\ chunks = <<>>
    /\ rt = <<>>
    /\ routingPc = "idle"
    /\ routingError = ""
    /\ updates = 0

\* EncryptedCollScanMode
kUseIfNeeded == "kUseIfNeeded"
kDisallow == "kDisallow"
kForceAlways == "kForceAlways"
EncryptedCollScanMode == {kUseIfNeeded, kDisallow, kForceAlways}

\* What a call returns or throws.
Returns(v) == [how |-> "returns", what |-> v]
Throws(code) == [how |-> "throws", what |-> code]
nullptr == [rewrite |-> "nullptr"]
NotCalled == [how |-> "none", what |-> nullptr]

\* rewrite() has not been called.
NoRewriteCall ==
    /\ scanMode = kUseIfNeeded
    /\ rewriteExpr = nullptr
    /\ tagDisjunction = NotCalled
    /\ runtimeComparison = NotCalled
    /\ rewritePc = "idle"
    /\ calls = <<>>
    /\ rewritten = NotCalled

\* No call of rewrite() is in progress.
RewriteIdle == NoRewriteCall /\ RoutingIdle

S0 == Static(root, trackIndex, isFilterOverIxscan)
NoPair == [e |-> NoExpr, stage |-> NullStage]
NoResult == [slot |-> 0, stage |-> NullStage]
NoOutcome == [admitted |-> FALSE, out |-> Nothing, ev |-> {}, state |-> NoRow]

Init ==
    /\ isFilterOverIxscan \in BOOLEAN
    /\ root \in IF isFilterOverIxscan THEN IxscanRoots ELSE Roots
    /\ trackIndex \in BOOLEAN
    /\ gFeatureFlagSbeFull \in BOOLEAN
    /\ context = NoContext
    /\ agenda = <<>>
    /\ pc = "call"
    /\ pending = NoPair
    /\ result = NoResult
    /\ doc = ObjV(NoFields)
    /\ outcome = NoOutcome
    /\ RewriteIdle

\* generateFilter up to the start of the walk.
\* generateFilter returns r before any visit.
ReturnEarly(r) ==
    /\ context' = Fail(context, r.err)
    /\ result' = [slot |-> r.slot, stage |-> r.stage]
    /\ pc' = IF r.err # "" THEN "failed" ELSE "returned"
    /\ agenda' = <<>>

\* The context c0 is constructed and the walk starts at the root.
StartWalk(c0) ==
    /\ context' = c0
    /\ result' = result
    /\ pc' = IF c0.err # "" THEN "failed" ELSE "walk"
    /\ agenda' = <<[op |-> "pre", at |-> <<>>]>>

GenerateFilter ==
    /\ pc = "call"
    /\ IF returnsEarly(root, trackIndex, isFilterOverIxscan, gFeatureFlagSbeFull)
       THEN ReturnEarly(earlyReturn(root, trackIndex, isFilterOverIxscan))
       ELSE StartWalk(MatchExpressionVisitorContext(S0, InputStage))
    /\ UNCHANGED <<root, trackIndex, isFilterOverIxscan, gFeatureFlagSbeFull,
                   pending, doc, outcome>>
    /\ UNCHANGED rewriteVars

\* One visit of the walk, of kind op, that leaves the context c.
Step(op, c) ==
    /\ pc = "walk"
    /\ agenda # <<>>
    /\ Head(agenda).op = op
    /\ context' = c
    /\ agenda' = walkNext(S0, agenda)
    /\ pc' = IF c.err # "" THEN "failed" ELSE "walk"
    /\ UNCHANGED <<root, trackIndex, isFilterOverIxscan, gFeatureFlagSbeFull,
                   pending, result, doc, outcome>>
    /\ UNCHANGED rewriteVars

PreVisit == Step("pre", MatchExpressionPreVisitor(S0, context, Head(agenda).at))
InVisit == Step("in", MatchExpressionInVisitor(S0, context, Head(agenda).at))
PostVisit == Step("post", MatchExpressionPostVisitor(S0, context, Head(agenda).at))

\* generateFilter returns what done() returned.
Return(d) ==
    /\ context' = d.c
    /\ result' = [slot |-> d.slot, stage |-> d.stage]
    /\ pc' = IF d.c.err # "" THEN "failed" ELSE "returned"

\* context.done(), and the return of generateFilter.
Done ==
    /\ pc = "walk"
    /\ agenda = <<>>
    /\ Return(done(S0, context))
    /\ pending' = IF framesCount(context) = 1 /\ exprsCount(topFrame(context)) > 0
                  THEN [e |-> topExpr(context), stage |-> topFrame(context).stage]
                  ELSE NoPair
    /\ UNCHANGED <<root, trackIndex, isFilterOverIxscan, gFeatureFlagSbeFull,
                   agenda, doc, outcome>>
    /\ UNCHANGED rewriteVars

\* The returned plan runs on one document.
outcomeOf(r, state) ==
    [admitted |-> r.admitted, out |-> r.out, ev |-> r.ev, state |-> state]

\* The run on document d, bound in the environment env.
RunOn(d, env) ==
    /\ doc' = d
    /\ outcome' = outcomeOf(RunPlan(result.stage, result.slot, env),
                            IF pending = NoPair THEN NoRow ELSE ValueOn(pending, env))

Execute ==
    /\ pc = "returned"
    /\ \E d \in IF isFilterOverIxscan THEN KeyDocs ELSE Docs :
          RunOn(d, InputEnv(isFilterOverIxscan, context.params, d))
    /\ pc' = "ran"
    /\ UNCHANGED <<root, trackIndex, isFilterOverIxscan, gFeatureFlagSbeFull,
                   context, agenda, pending, result>>
    /\ UNCHANGED rewriteVars

Next == GenerateFilter \/ PreVisit \/ InVisit \/ PostVisit \/ Done \/ Execute

Spec == Init /\ [][Next]_vars

(***************************************************************************)
(* Properties.                                                             *)
(***************************************************************************)
\* The document the classic matcher sees: the document itself, or the
\* object built from the key of the index scan.
MatchedDoc ==
    IF isFilterOverIxscan
    THEN ObjV([n \in FieldNames |-> IF n = "" THEN Nothing ELSE keyOf(doc.f[n])])
    ELSE doc

\* The plan was built by the visitors and has run on 'doc'.
LoweredAndRan == pc = "ran" /\ gFeatureFlagSbeFull /\ ~(root.kind = "and" /\ numChildren(root) = 0)

ZeroChildAnd == root.kind = "and" /\ numChildren(root) = 0

\* C1 (as the claim states it): without index tracking and with a root
\* that is not an AND of no children, generateFilter returns no output slot
\* and the returned stage admits a document iff the predicate tree is true
\* on it.
C1_NoSlotAndStageAdmitsIffTrue ==
    (pc = "ran" /\ ~trackIndex /\ ~ZeroChildAnd)
        => (result.slot = 0 /\ (outcome.admitted <=> Matches(root, MatchedDoc)))

\* C1, for the roots whose visit pushes a result: the statement above holds
\* for every root other than $_internalBucketGeoWithin.
C1_HoldsForLoweredKinds ==
    (pc = "ran" /\ ~trackIndex /\ ~ZeroChildAnd /\ root.kind # "internalBucketGeoWithin")
        => (result.slot = 0 /\ (outcome.admitted <=> Matches(root, MatchedDoc)))

\* A root $_internalBucketGeoWithin is admitted on a document it is false on.
C1_IgnoredRootAdmitted ==
    /\ pc = "ran" /\ ~trackIndex /\ gFeatureFlagSbeFull
    /\ root.kind = "internalBucketGeoWithin"
    /\ result.slot = 0 /\ result.stage = InputStage
    /\ outcome.admitted /\ ~Matches(root, MatchedDoc)

\* The state is in the form of the index helper and its boolean is true.
StateIsTrue(v) == v.t = "state" /\ v.sb

\* C2 (amended): with index tracking and one pending expression on the
\* root frame, done() puts the final state in outputSlot (a fresh slot it
\* is projected into, or the slot that already holds it), adds a filter on
\* the boolean of that state to the stage, and returns a fresh slot holding
\* the index of the state: the returned stage admits a document only if the
\* boolean of the state is true on it.
C2_StateProjectedAndStageFiltered ==
    (pc \in {"returned", "ran"} /\ trackIndex /\ pending # NoPair)
        => /\ result.slot = context.g.slot
           /\ context.outputSlot =
                  (IF pending.e.k = "var" THEN pending.e.s ELSE result.slot - 1)
           /\ result.stage = makeProject(
                  makeFilter(FALSE,
                             IF pending.e.k = "var" THEN pending.stage
                             ELSE makeProject(pending.stage, context.outputSlot, pending.e),
                             getBool(TRUE, makeVariable(context.outputSlot))),
                  result.slot,
                  makeFunction1("stateIndex", makeVariable(context.outputSlot)))
           /\ (pc = "ran" => (outcome.admitted <=> StateIsTrue(outcome.state)))

\* C2 witness: a plan returned with index tracking rejects a document on
\* which the predicate is false.
C2_Witness ==
    /\ pc = "ran" /\ trackIndex /\ pending # NoPair
    /\ result.slot # 0
    /\ ~outcome.admitted /\ ~Matches(root, doc)
    /\ outcome.state = IdxState(FALSE, -1)

\* C2 (as the claim states it): with index tracking and one pending
\* expression, the stage is left unfiltered, so it admits every document.
C2_StageLeftUnfiltered ==
    (pc = "ran" /\ trackIndex /\ pending # NoPair)
        => (result.slot # 0 /\ outcome.admitted)

\* The lowering of the root as a nested AND: the walk of an $or whose only
\* child is the root (an operator with one child passes its child's result
\* through), which leaves the result of the generic lowering on the root
\* frame.
NestedLowering ==
    LET S == Static(Logical("or", <<root>>), trackIndex, isFilterOverIxscan)
    IN walk(S, MatchExpressionVisitorContext(S, InputStage), <<[op |-> "pre", at |-> <<>>]>>)

\* The boolean of the generic lowering of the root on document d is true.
NestedLoweringTrue(d) ==
    LET c == NestedLowering
    IN /\ c.err = ""
       /\ framesCount(c) = 1
       /\ exprsCount(topFrame(c)) = 1
       /\ IsTrue(ValueOn([e |-> getBool(trackIndex, topExpr(c)), stage |-> topFrame(c).stage],
                         InputEnv(isFilterOverIxscan, c.params, d)))

\* C3: for a root AND with 1 to 25 children, the stage built by the
\* top-level optimisation (one filter per child on the shared stage) admits
\* a document iff the generic short-circuiting lowering of the same AND, as
\* used for a nested AND, evaluates to true on it.
C3_TopLevelAndTransparent ==
    (LoweredAndRan /\ root.kind = "and"
     /\ numChildren(root) \in 1..kMaxChildrenForTopLevelAndOptimization)
        => (outcome.admitted <=> NestedLoweringTrue(doc))

\* C3 witness: a flattened AND of several children (no expression is left
\* for done()) admits a document, as the generic lowering does.
C3_Witness ==
    /\ LoweredAndRan /\ root.kind = "and" /\ numChildren(root) >= 2
    /\ pending = NoPair
    /\ result.stage.k = "filter" /\ result.stage.child.k = "filter"
    /\ outcome.admitted /\ NestedLoweringTrue(doc)

(***************************************************************************)
(* Which leaves a run evaluated.                                           *)
(***************************************************************************)
RECURSIVE Addresses(_, _)
Addresses(n, at) ==
    {at} \cup UNION {Addresses(n.children[i], Append(at, i)) : i \in 1..Len(n.children)}

IsPrefix(p, q) == Len(p) <= Len(q) /\ SubSeq(q, 1, Len(p)) = p

\* Some leaf at or below address 'at' was evaluated by the run.
Evaluated(at) == \E ev \in outcome.ev : IsPrefix(at, ev.leaf)

\* The node at 'at' is lowered by the short-circuiting combinator.
Combined(at) ==
    /\ NodeAt(root, at).kind \in {"and", "or", "nor"}
    /\ numChildren(NodeAt(root, at)) >= 2
    /\ ~isTopLevelAnd(S0, at)

\* Child i of the node at 'at' determines the node's result.
Determining(at, i) ==
    Matches(NodeAt(root, at).children[i], doc) <=> (NodeAt(root, at).kind # "and")

\* C4: in the plan of a multi-child AND / OR / NOR the branches are tried
\* in the order of the children: no branch after the first determining one
\* (OR and NOR: true, AND: false) is evaluated, and every branch up to the
\* first determining one is (a leaf over an empty array has no element to
\* be evaluated on, so this half is stated for the other documents).
C4_BranchesInOrderShortCircuit ==
    (LoweredAndRan /\ ~isFilterOverIxscan)
        => \A at \in Addresses(root, <<>>) :
              Combined(at) =>
                 \A j \in 1..numChildren(NodeAt(root, at)) :
                    /\ (\E i \in 1..(j - 1) : Determining(at, i)) => ~Evaluated(Append(at, j))
                    /\ (/\ Evaluated(at)
                        /\ doc.f["a"] # ArrV(<<>>)
                        /\ \A i \in 1..(j - 1) : ~Determining(at, i))
                          => Evaluated(Append(at, j))

\* C4 witness: an OR over [false, true, X] evaluates its first two
\* branches and never the third.
C4_Witness ==
    /\ LoweredAndRan /\ root.kind = "or" /\ numChildren(root) = 3
    /\ ~Matches(root.children[1], doc) /\ Matches(root.children[2], doc)
    /\ Evaluated(<<1>>) /\ Evaluated(<<2>>) /\ ~Evaluated(<<3>>)
    /\ outcome.admitted

\* The value of the field path in v when no array is met on the way: the
\* field of the field ..., Nothing where a field is absent.
RECURSIVE Lookup(_, _)
Lookup(v, path) ==
    IF path = <<>> THEN v
    ELSE IF v.t = "obj" THEN Lookup(v.f[Head(path)], Tail(path))
    ELSE Nothing

\* No array lies on the field path in v (the last value included).
RECURSIVE NoArrayOn(_, _)
NoArrayOn(v, path) ==
    /\ v.t # "arr"
    /\ (path # <<>> /\ v.t = "obj") => NoArrayOn(v.f[Head(path)], Tail(path))

NullComparison(n) == n.kind \in {"eq", "lte", "gte"} /\ n.rhs = Null

\* C5: for equality, $lte and $gte with a null operand, a document in which
\* the field is absent and a document in which it is null are both
\* admitted; a document holding a number in the field is not.
C5_MissingBehavesAsNull ==
    (pc = "ran" /\ NullComparison(root) /\ NoArrayOn(MatchedDoc, root.path))
        => /\ Lookup(MatchedDoc, root.path) \in {Nothing, Null} => outcome.admitted
           /\ Lookup(MatchedDoc, root.path).t = "int" => ~outcome.admitted

\* C5 witness: {'a.b': {$lte: null}} built by the visitors admits a
\* document without the field a.
C5_Witness ==
    /\ LoweredAndRan /\ ~isFilterOverIxscan
    /\ root = Leaf("lte", <<"a", "b">>, Null)
    /\ doc = ObjV(NoFields)
    /\ Evaluated(<<>>)
    /\ outcome.admitted

\* The operand of the comparison is neither an array nor MinKey / MaxKey.
ScalarOperand(n) == n.kind \in ComparisonKinds /\ n.rhs.t \notin {"arr", "minKey", "maxKey"}
ArrayOperand(n) == n.kind \in ComparisonKinds /\ n.rhs.t = "arr"

\* The values the run evaluated a leaf predicate on.
EvaluatedOn == {ev.on : ev \in outcome.ev}
Elements(arr) == {arr.e[i] : i \in 1..Len(arr.e)}

\* The root is a comparison on field a, lowered by the visitors, and the
\* document holds an array in a.
ComparisonOnArrayRan ==
    /\ LoweredAndRan /\ ~isFilterOverIxscan
    /\ root.kind \in ComparisonKinds /\ root.path = <<"a">>
    /\ doc.f["a"].t = "arr"

C7_ElementsThenWholeArray ==
    (ComparisonOnArrayRan /\ ArrayOperand(root))
        => LET arr == doc.f["a"]
               hit(i) == CompareMatches(root.kind, root.rhs, arr.e[i])
               someHit == \E i \in 1..Len(arr.e) : hit(i)
           IN /\ \A i \in 1..Len(arr.e) :
                    (\A j \in 1..(i - 1) : ~hit(j)) => arr.e[i] \in EvaluatedOn
              /\ ~someHit => arr \in EvaluatedOn
              /\ someHit => arr \notin EvaluatedOn
              /\ outcome.admitted <=>
                     (someHit \/ CompareMatches(root.kind, root.rhs, arr))

\* C7 witness: {a: [1, 2]} matches {a: [[1, 2]]} through the element
\* [1, 2]; the whole array [[1, 2]] is not evaluated.
C7_Witness ==
    /\ ComparisonOnArrayRan
    /\ root = Leaf("eq", <<"a">>, ArrV(<<IntV(1), IntV(2)>>))
    /\ doc = ObjA(ArrV(<<ArrV(<<IntV(1), IntV(2)>>)>>))
    /\ EvaluatedOn = {ArrV(<<IntV(1), IntV(2)>>)}
    /\ outcome.admitted

\* C7 (as the claim states it): a comparison whose operand is an array is
\* evaluated on the field's array as a whole only, never on its elements.
C7_WholeArrayOnly ==
    (ComparisonOnArrayRan /\ ArrayOperand(root)) => EvaluatedOn \subseteq {doc.f["a"]}

\* The root is an $elemMatch on field a, lowered by the visitors.
ElemMatchRan ==
    /\ LoweredAndRan /\ ~isFilterOverIxscan
    /\ root.kind \in {"elemMatchObject", "elemMatchValue"}

\* C8: $elemMatch (object) matches iff the field holds an array with an
\* element that is an object or an array and on which the child is true;
\* an array whose elements are all scalars never matches, whatever the
\* child.
C8_ElemMatchObjectNeedsObjectOrArray ==
    (ElemMatchRan /\ root.kind = "elemMatchObject")
        => LET x == doc.f["a"]
           IN /\ outcome.admitted <=>
                     /\ x.t = "arr"
                     /\ \E i \in 1..Len(x.e) :
                           /\ x.e[i].t \in {"obj", "arr"}
                           /\ Matches(root.children[1], x.e[i])
              /\ (x.t = "arr" /\ \A i \in 1..Len(x.e) : x.e[i].t \notin {"obj", "arr"})
                    => ~outcome.admitted

\* C8 witness: {a: {$elemMatch: {b: null}}}, whose child matches a missing
\* field, does not match {a: [5]}.
C8_Witness ==
    /\ ElemMatchRan
    /\ root = ElemMatch("elemMatchObject", <<"a">>, <<Leaf("eq", <<"b">>, Null)>>)
    /\ doc = ObjA(ArrV(<<IntV(5)>>))
    /\ ~outcome.admitted

\* The state false of the active state helper.
StateFalse == IF trackIndex THEN IdxState(FALSE, -1) ELSE BoolV(FALSE)

\* C9: for both $elemMatch forms no leaf of the per-element predicate is
\* evaluated unless the value of the field is an array, and when that
\* value is missing, not an array or an empty array the result of the
\* $elemMatch is the state false, not Nothing.
C9_ElemMatchOnlyOnArrays ==
    ElemMatchRan
        => /\ doc.f["a"].t # "arr" => outcome.ev = {}
           /\ (doc.f["a"].t # "arr" \/ doc.f["a"] = ArrV(<<>>)) => outcome.state = StateFalse

\* C9 witness: $elemMatch (value) run on a document whose field a is a
\* number: nothing is evaluated and the result is false.
C9_Witness ==
    /\ ElemMatchRan /\ root.kind = "elemMatchValue"
    /\ doc = ObjA(IntV(10))
    /\ root.children[1] = Leaf("gt", <<>>, IntV(5))
    /\ outcome.ev = {} /\ outcome.state = StateFalse /\ ~outcome.admitted

\* The root is a $size lowered by the visitors; done() has run.
SizeLowered ==
    /\ pc \in {"returned", "ran"} /\ gFeatureFlagSbeFull /\ ~isFilterOverIxscan
    /\ root.kind = "size"

\* C10: a $size with a negative literal and no parameter pushes the
\* constant state false and adds nothing to the stage (no field access, no
\* traversal), so no document is admitted; a parameterised $size registers
\* its parameter slot and is lowered to a predicate that is evaluated on
\* the field of every document, whatever the sign of its size.
C10_NegativeSizeIsConstantFalse ==
    SizeLowered
        => /\ (root.rhs.i < 0 /\ ~root.param) =>
                 /\ pending = [e |-> makeStateConst(trackIndex, FALSE), stage |-> InputStage]
                 /\ context.g = [firstIds EXCEPT !.slot = IF trackIndex THEN @ + 2 ELSE @]
                 /\ pc = "ran" => (~outcome.admitted /\ outcome.ev = {})
           /\ root.param =>
                 /\ Len(context.params) = 1 /\ context.params[1].v = root.rhs
                 /\ pending.e # makeStateConst(trackIndex, FALSE)
                 /\ pc = "ran" => \E ev \in outcome.ev : ev.leaf = <<>>

\* C10 witness: {a: {$size: -1}} without a parameter, run on a document.
C10_Witness ==
    /\ SizeLowered /\ pc = "ran"
    /\ root.rhs.i < 0 /\ ~root.param /\ ~trackIndex
    /\ pending.e = makeConstant(BoolV(FALSE))
    /\ doc.f["a"].t = "arr"
    /\ ~outcome.admitted

(***************************************************************************)
(* The effect of the complete visit of one node: its pre-visit, the visits *)
(* of its subtree and its post-visit, made from the context of the state   *)
(* in which its pre-visit is the next step of the walk.                    *)
(***************************************************************************)
\* The pre-visit of a node is the next step of the walk.
AtPreVisit == pc = "walk" /\ agenda # <<>> /\ Head(agenda).op = "pre"

\* The context after the complete visit of the node whose pre-visit is next.
AfterVisit == walk(S0, context, <<Head(agenda)>>)

\* The complete visit from context c to context c1 lowered the node at
\* 'at': it pushed one expression on the frame that was on top at entry
\* or, for the optimised top-level AND, put its filters on the stage of
\* that frame.
Lowered(c, c1, at) ==
    /\ c1.err = ""
    /\ framesCount(c1) = framesCount(c)
    /\ IF isTopLevelAnd(S0, at)
       THEN exprsCount(topFrame(c1)) = exprsCount(topFrame(c))
            /\ topFrame(c1).stage # topFrame(c).stage
       ELSE exprsCount(topFrame(c1)) = exprsCount(topFrame(c)) + 1

unsupportedExpression == "tassert 4822878"

RECURSIVE KindsOf(_)
KindsOf(n) == {n.kind} \cup UNION {KindsOf(n.children[i]) : i \in 1..Len(n.children)}

\* C11 (as the claim states it): the complete visit of every node either
\* lowers the node (pushes a result) or raises the unsupported-expression
\* assertion, and once generateFilter has failed it has returned no stage
\* and no slot.
C11_LoweredOrUnsupported ==
    /\ AtPreVisit =>
          \/ Lowered(context, AfterVisit, Head(agenda).at)
          \/ AfterVisit.err = unsupportedExpression
    /\ pc = "failed" => result = NoResult

\* C11, for the trees without $_internalBucketGeoWithin: the statement
\* above holds for every other predicate kind.
C11_HoldsForOtherKinds ==
    "internalBucketGeoWithin" \notin KindsOf(root) => C11_LoweredOrUnsupported

\* A root $_internalBucketGeoWithin is walked without a failure and without
\* a result: generateFilter returns the input stage as it was.
C11_IgnoredKind ==
    /\ pc = "returned" /\ gFeatureFlagSbeFull
    /\ root.kind = "internalBucketGeoWithin"
    /\ context.err = "" /\ pending = NoPair
    /\ exprsCount(topFrame(context)) = 0
    /\ result = [slot |-> 0, stage |-> InputStage]

\* C12: a call with both isFilterOverIxscan and trackIndex fails with the
\* assertion 7097206 before anything is built: no context is constructed,
\* no id is generated, no visit is made and no stage or slot is returned,
\* for every root, an AND of no children included.
C12_IxscanExcludesTrackIndex ==
    (pc # "call" /\ isFilterOverIxscan /\ trackIndex)
        => /\ pc = "failed"
           /\ context = Fail(NoContext, "tassert 7097206")
           /\ agenda = <<>>
           /\ result = NoResult
           /\ pending = NoPair

\* C12 witness: the call with both flags and a root AND of no children has
\* failed.
C12_Witness ==
    /\ pc = "failed" /\ isFilterOverIxscan /\ trackIndex
    /\ root = Logical("and", <<>>)
    /\ context.err = "tassert 7097206"
    /\ result.stage = NullStage

(***************************************************************************)
(* The lowering of a subtree on its own, and its value on a document.      *)
(***************************************************************************)
\* The context after the walk of an $or whose only child is n: the result
\* of the lowering of n is left on the root frame.
LoweredAlone(n) ==
    LET S == Static(Logical("or", <<n>>), trackIndex, isFilterOverIxscan)
    IN walk(S, MatchExpressionVisitorContext(S, InputStage), <<[op |-> "pre", at |-> <<>>]>>)

\* The state the lowering c of a subtree evaluates to on document d.
StateOn(c, d) ==
    ValueOn([e |-> topExpr(c), stage |-> topFrame(c).stage],
            InputEnv(isFilterOverIxscan, c.params, d))

\* The state of the subtree n on document d.
StateOf(n, d) == StateOn(LoweredAlone(n), d)

\* The boolean component of a state of the active helper, or Nothing.
BoolOfState(v) ==
    IF trackIndex THEN (IF v.t = "state" THEN BoolV(v.sb) ELSE Nothing)
    ELSE (IF v.t = "bool" THEN v ELSE Nothing)

\* The state with boolean x and no index.
StateWithoutIndex(x) == IF trackIndex THEN IdxState(x, -1) ELSE BoolV(x)

\* The root is a $not or a $nor lowered by the visitors, and has run.
NegationRan ==
    /\ LoweredAndRan /\ ~isFilterOverIxscan
    /\ root.kind \in {"not", "nor"}

\* C13: the state of a $not is the negation of the boolean of its child's
\* state, the state of a $nor the negation of the OR of the booleans of its
\* children's states, and in both cases the state holds no index (-1),
\* whatever index the states of the children hold.
C13_NegationDropsIndex ==
    NegationRan
        => LET kids == {BoolOfState(StateOf(root.children[i], doc)) :
                            i \in 1..numChildren(root)}
           IN /\ \A b \in kids : b.t = "bool"
              /\ outcome.state = StateWithoutIndex(~\E b \in kids : IsTrue(b))

\* C13 witness: with index tracking, {a: {$not: {$eq: 2}}} on {a: [10, 2]}:
\* the state of the child is true with index 1, the state of the $not is
\* false without an index.
C13_Witness ==
    /\ NegationRan /\ trackIndex
    /\ root = Logical("not", <<Leaf("eq", <<"a">>, IntV(2))>>)
    /\ doc = ObjA(ArrV(<<IntV(10), IntV(2)>>))
    /\ StateOf(root.children[1], doc) = IdxState(TRUE, 1)
    /\ outcome.state = IdxState(FALSE, -1)
    /\ ~outcome.admitted

\* The walk has made its last visit without a failure: done() runs next.
WalkCompleted == pc = "walk" /\ agenda = <<>>

\* C14: when the walk has completed without a failure, the evaluation
\* stack holds the root frame only, and that frame holds at most one
\* expression: neither invariant of done() fails.
C14_OneFrameAtDone ==
    WalkCompleted
        => /\ framesCount(context) = 1
           /\ exprsCount(topFrame(context)) <= 1
           /\ done(S0, context).c.err = ""

\* C14 witness: the walk of a $nor of two children, the first an $or of two
\* leaves, has completed: the frames of the children are gone and the root
\* frame holds the one expression of the $nor.
C14_Witness ==
    /\ WalkCompleted
    /\ root.kind = "nor" /\ numChildren(root) = 2
    /\ root.children[1].kind = "or" /\ numChildren(root.children[1]) = 2
    /\ framesCount(context) = 1
    /\ exprsCount(topFrame(context)) = 1
    /\ topFrame(context).stage # InputStage

(***************************************************************************)
(* EncryptedPredicate::rewrite (encrypted_predicate.h).  The two rewrites  *)
(* of a predicate are pure virtual: what each of them does on the          *)
(* expression is an input of the call.                                     *)
(***************************************************************************)
\* ErrorCodes::FLEMaxTagLimitExceeded
FLEMaxTagLimitExceeded == [code |-> "FLEMaxTagLimitExceeded"]
\* Some exception other than FLEMaxTagLimitExceeded.
OtherException == [code |-> "BadValue"]

\* The expressions handed to rewrite(): MatchExpressions and agg Expressions.
RewriteExprs ==
    {[type |-> ty, kind |-> k] :
        ty \in {"MatchExpression", "Expression"}, k \in {"eq", "in"}}

\* What rewriteToTagDisjunction / rewriteToRuntimeComparison may do on e.
TagDisjunctionOutcomes(e) ==
    {Returns([rewrite |-> "tagDisjunction", of |-> e]), Returns(nullptr),
     Throws(FLEMaxTagLimitExceeded), Throws(OtherException)}
RuntimeComparisonOutcomes(e) ==
    {Returns([rewrite |-> "runtimeComparison", of |-> e]), Returns(nullptr),
     Throws(OtherException)}

\* mode != EncryptedCollScanMode::kForceAlways
attemptsTagDisjunction(m) == m # kForceAlways

\* Variant: the exception is rethrown in no mode.
rethrowsNever(m) == FALSE

\* mode != EncryptedCollScanMode::kUseIfNeeded
rethrows(m) == m # kUseIfNeeded

\* generateFilter has not been called.
NoFilterCall ==
    /\ root = Logical("and", <<>>)
    /\ trackIndex = FALSE
    /\ isFilterOverIxscan = FALSE
    /\ gFeatureFlagSbeFull = TRUE
    /\ context = NoContext
    /\ agenda = <<>>
    /\ pc = "idle"
    /\ pending = NoPair
    /\ result = NoResult
    /\ doc = ObjV(NoFields)
    /\ outcome = NoOutcome

\* The filter compiler takes no part in a call of rewrite().
FilterIdle == NoFilterCall /\ RoutingIdle

RewriteInit ==
    /\ FilterIdle
    /\ scanMode \in EncryptedCollScanMode
    /\ rewriteExpr \in RewriteExprs
    /\ tagDisjunction \in TagDisjunctionOutcomes(rewriteExpr)
    /\ runtimeComparison \in RuntimeComparisonOutcomes(rewriteExpr)
    /\ rewritePc = "rewrite"
    /\ calls = <<>>
    /\ rewritten = NotCalled

\* The call 'name' is made and control moves to 'at'; the call of rewrite()
\* ends there when 'at' is "returned" or "thrown".
RewriteStep(name, at, out) ==
    /\ calls' = IF name = "" THEN calls ELSE Append(calls, name)
    /\ rewritePc' = at
    /\ rewritten' = out
    /\ UNCHANGED <<scanMode, rewriteExpr, tagDisjunction, runtimeComparison>>
    /\ UNCHANGED filterVars

\* auto mode = _rewriter->getEncryptedCollScanMode(); if (mode != kForceAlways)
GetEncryptedCollScanMode ==
    /\ rewritePc = "rewrite"
    /\ RewriteStep("",
                   IF attemptsTagDisjunction(scanMode) THEN "try" ELSE "runtimeComparison",
                   rewritten)

\* try { return rewriteToTagDisjunction(expr); } catch (FLEMaxTagLimitExceeded)
RewriteToTagDisjunction ==
    /\ rewritePc = "try"
    /\ RewriteStep("rewriteToTagDisjunction",
                   IF tagDisjunction.how = "returns" THEN "returned"
                   ELSE IF tagDisjunction.what = FLEMaxTagLimitExceeded THEN "catch"
                   ELSE "thrown",
                   IF tagDisjunction = Throws(FLEMaxTagLimitExceeded) THEN rewritten
                   ELSE tagDisjunction)

\* logTagsExceeded(ex); if (mode != kUseIfNeeded) throw;
LogTagsExceeded ==
    /\ rewritePc = "catch"
    /\ RewriteStep("logTagsExceeded",
                   IF rethrows(scanMode) THEN "thrown" ELSE "runtimeComparison",
                   IF rethrows(scanMode) THEN Throws(FLEMaxTagLimitExceeded) ELSE rewritten)

\* return rewriteToRuntimeComparison(expr);
RewriteToRuntimeComparison ==
    /\ rewritePc = "runtimeComparison"
    /\ RewriteStep("rewriteToRuntimeComparison",
                   IF runtimeComparison.how = "returns" THEN "returned" ELSE "thrown",
                   runtimeComparison)

RewriteNext ==
    \/ GetEncryptedCollScanMode
    \/ RewriteToTagDisjunction
    \/ LogTagsExceeded
    \/ RewriteToRuntimeComparison

RewriteSpec == RewriteInit /\ [][RewriteNext]_vars

\* The call of rewrite() has ended.
RewriteEnded == rewritePc \in {"returned", "thrown"}

\* C15: in mode kForceAlways the tag-disjunction rewrite is never called
\* and rewrite() ends as the runtime-comparison rewrite does; in every
\* other mode the tag-disjunction rewrite is called first and, when it
\* returns, its result is returned and nothing else is called; when it
\* throws FLEMaxTagLimitExceeded the failure is logged and then, in mode
\* kUseIfNeeded, rewrite() ends as the runtime-comparison rewrite does,
\* and in the remaining mode FLEMaxTagLimitExceeded is thrown to the
\* caller without a call of the runtime-comparison rewrite.
C15_RewriteFollowsScanMode ==
    RewriteEnded
        => IF scanMode = kForceAlways
           THEN calls = <<"rewriteToRuntimeComparison">> /\ rewritten = runtimeComparison
           ELSE IF tagDisjunction.how = "returns"
           THEN calls = <<"rewriteToTagDisjunction">>
                /\ rewritePc = "returned" /\ rewritten = tagDisjunction
           ELSE IF tagDisjunction = Throws(FLEMaxTagLimitExceeded)
           THEN IF scanMode = kUseIfNeeded
                THEN calls = <<"rewriteToTagDisjunction", "logTagsExceeded",
                               "rewriteToRuntimeComparison">>
                     /\ rewritten = runtimeComparison
                ELSE calls = <<"rewriteToTagDisjunction", "logTagsExceeded">>
                     /\ rewritePc = "thrown"
                     /\ rewritten = Throws(FLEMaxTagLimitExceeded)
           ELSE calls = <<"rewriteToTagDisjunction">>
                /\ rewritePc = "thrown" /\ rewritten = tagDisjunction

\* C15 witness: in mode kDisallow the tag-disjunction rewrite has exceeded
\* the tag limit: the failure was logged and rethrown.
C15_Witness ==
    /\ RewriteEnded /\ scanMode = kDisallow
    /\ tagDisjunction = Throws(FLEMaxTagLimitExceeded)
    /\ calls = <<"rewriteToTagDisjunction", "logTagsExceeded">>
    /\ rewritePc = "thrown"
    /\ rewritten = Throws(FLEMaxTagLimitExceeded)

RECURSIVE BooleanValue(_)
BooleanValue(n) ==
    CASE n.kind = "alwaysTrue" -> TRUE
      [] n.kind = "alwaysFalse" -> FALSE
      [] n.kind = "and" -> \A i \in 1..numChildren(n) : BooleanValue(n.children[i])
      [] n.kind = "or" -> \E i \in 1..numChildren(n) : BooleanValue(n.children[i])
      [] n.kind = "nor" -> \A i \in 1..numChildren(n) : ~BooleanValue(n.children[i])
      [] n.kind = "not" -> ~BooleanValue(n.children[1])

IsBooleanTree(n) == KindsOf(n) \subseteq {"alwaysTrue", "alwaysFalse", "and", "or", "nor", "not"}

\* The root is a tree over always-true / always-false leaves, lowered by
\* the visitors, and has run.
BooleanTreeRan == LoweredAndRan /\ IsBooleanTree(root)

\* C17: for a tree of AND, OR, NOR and NOT over always-true / always-false
\* leaves, the boolean of the state the lowered root evaluates to (for the
\* optimised top-level AND, which leaves no state: whether the chain of
\* filters admits the document) equals the Boolean value of the tree, and
\* the returned stage admits the document iff that value is true.
C17_BooleanTreesEvaluateAsBoolean ==
    BooleanTreeRan
        => /\ outcome.admitted <=> BooleanValue(root)
           /\ pending # NoPair => BoolOfState(outcome.state) = BoolV(BooleanValue(root))
           /\ pending = NoPair => isTopLevelAnd(S0, <<>>)

\* C17 witness: {$nor: [{$and: []}]} is false (the AND of no children is
\* true) and rejects the document.
C17_Witness ==
    /\ BooleanTreeRan
    /\ root = Logical("nor", <<Logical("and", <<>>)>>)
    /\ BoolOfState(outcome.state) = BoolV(FALSE)
    /\ ~outcome.admitted

(***************************************************************************)
(* The frames of the evaluation stack at a point of the walk.  The point   *)
(* is given by the visit that is made next, Head(agenda).                  *)
(***************************************************************************)
\* A visit is next.
InWalk == pc = "walk" /\ agenda # <<>>

\* The node opens a nesting level: an AND / OR / NOR of two or more
\* children other than the optimised top-level AND, or an $elemMatch.
OpensNesting(at) ==
    LET n == NodeAt(root, at)
    IN /\ ~isTopLevelAnd(S0, at)
       /\ \/ n.kind \in {"and", "or", "nor"} /\ numChildren(n) >= 2
          \/ n.kind \in {"elemMatchObject", "elemMatchValue"}

\* The nodes the point of the walk lies in: the ancestors of the node
\* visited next and, at its in-visit and post-visit, that node.
EnclosingNodes ==
    LET item == Head(agenda)
    IN {SubSeq(item.at, 1, k) :
            k \in 0..(Len(item.at) - (IF item.op = "pre" THEN 1 ELSE 0))}

NestingDepth == Cardinality({at \in EnclosingNodes : OpensNesting(at)})

\* The frames the node at 'at' holds once its first i children have been
\* entered: one for each of them, one in all for an $elemMatch (object).
framesOfChildren(at, i) ==
    IF ~OpensNesting(at) THEN 0
    ELSE IF NodeAt(root, at).kind = "elemMatchObject" THEN 1
    ELSE i

\* The number of children of the node at 'at' entered so far.
childrenEntered(at) ==
    LET item == Head(agenda)
    IN IF at # item.at THEN item.at[Len(at) + 1]
       ELSE IF item.op = "post" THEN numChildren(NodeAt(root, at))
       ELSE agenda[2].at[Len(at) + 1] - 1

RECURSIVE SumOver(_, _)
SumOver(f(_), set) ==
    IF set = {} THEN 0
    ELSE LET x == CHOOSE y \in set : TRUE IN f(x) + SumOver(f, set \ {x})

ExpectedFrames ==
    LET held(at) == framesOfChildren(at, childrenEntered(at))
    IN 1 + SumOver(held, EnclosingNodes)

\* C18 (as the claim states it): at every point of the walk the number of
\* frames is the nesting depth plus one.
C18_FramesEqualNestingDepth == InWalk => framesCount(context) = NestingDepth + 1

\* C18 (amended): at every point of the walk the number of frames is one
\* for the root frame, plus, for every enclosing AND / OR / NOR of two or
\* more children (the optimised top-level AND excluded) and every enclosing
\* $elemMatch (value), the number of its children entered so far, plus one
\* for every enclosing $elemMatch (object); so the number of frames is at
\* least the nesting depth plus one.
C18_FramesPerChildEntered ==
    InWalk => /\ framesCount(context) = ExpectedFrames
              /\ framesCount(context) >= NestingDepth + 1

\* C18 witness: the walk is about to enter the second child of the $or
\* that is the first child of a $nor: the stack holds the root frame, the
\* frame of the $or and the frames of both children of the $or.
C18_Witness ==
    /\ InWalk
    /\ Head(agenda) = [op |-> "pre", at |-> <<1, 2>>]
    /\ root.kind = "nor" /\ root.children[1].kind = "or"
    /\ NestingDepth = 2
    /\ framesCount(context) = 4

(***************************************************************************)
(* The lowering of AND nodes.  The points looked at are the in-visits and  *)
(* the post-visit of an AND: the child before the point has been lowered.  *)
(***************************************************************************)
\* The in-visit or the post-visit of an AND is the next step of the walk.
AtAndVisit ==
    /\ InWalk
    /\ Head(agenda).op \in {"in", "post"}
    /\ NodeAt(root, Head(agenda).at).kind = "and"

\* The frames on the stack when the walk entered the node visited next:
\* the root frame and the frames held by the ancestors of the node.
FramesAtEntry ==
    LET held(at) == framesOfChildren(at, childrenEntered(at))
    IN 1 + SumOver(held, EnclosingNodes \ {Head(agenda).at})

\* The AND visited next is the root and has at most 25 children.
RootAndWithinLimit ==
    Head(agenda).at = <<>> /\ numChildren(root) <= kMaxChildrenForTopLevelAndOptimization

\* The visit from c to c1 put the boolean of the child lowered last as a
\* filter on the stage of the root frame: no frame was pushed for the
\* child, and the expression stack of the root frame is left empty.
FilterChained(c, c1) ==
    /\ framesCount(c) = 1 /\ exprsCount(topFrame(c)) = 1
    /\ c1.err = ""
    /\ framesCount(c1) = 1 /\ exprsCount(topFrame(c1)) = 0
    /\ topFrame(c1).stage.k = "filter" /\ ~topFrame(c1).stage.isConst
    /\ IF Head(agenda).op = "post" /\ trackIndex
       THEN topFrame(c1).stage.child = topFrame(projectCurrentExprToOutputSlot(c)).stage
       ELSE /\ topFrame(c1).stage.child = topFrame(c).stage
            /\ topFrame(c1).stage.e = getBool(trackIndex, topExpr(c))

\* The post-visit from c to c1 popped the n frames of the children and
\* pushed their short-circuiting conjunction on the frame below.
CombinedGenerically(c, c1, n) ==
    /\ c1.err = ""
    /\ framesCount(c1) = framesCount(c) - n
    /\ topExpr(c1) = generateShortCircuitingLogicalOp("logicAnd", poppedBranches(c, n),
                                                      c.g, trackIndex).e

\* C19 (as the claim states it): the filter chain is applied to the root
\* AND of at most 25 children and to no other node; every other AND holds
\* one frame for each child entered and its post-visit combines the frames
\* of all its children with the short-circuiting combinator.
C19_EveryOtherAndOneFramePerChild ==
    AtAndVisit =>
       IF RootAndWithinLimit
       THEN FilterChained(context, visit(S0, context, Head(agenda)))
       ELSE /\ framesCount(context) = FramesAtEntry + childrenEntered(Head(agenda).at)
            /\ Head(agenda).op = "post" /\ numChildren(NodeAt(root, Head(agenda).at)) >= 1 =>
                  CombinedGenerically(context, visit(S0, context, Head(agenda)),
                                      numChildren(NodeAt(root, Head(agenda).at)))

\* C19 (amended): the filter chain is applied to the root AND of at most
\* 25 children and to no other node; every other AND of two or more
\* children holds one frame for each child entered and its post-visit
\* combines them with the short-circuiting combinator; every other AND of
\* one child lowers the child in the frame on top at entry and adds
\* nothing to it; every other AND without children pushes a constant.
C19_FilterChainOnlyForRootAnd ==
    AtAndVisit =>
       IF RootAndWithinLimit
       THEN FilterChained(context, visit(S0, context, Head(agenda)))
       ELSE IF numChildren(NodeAt(root, Head(agenda).at)) >= 2
       THEN /\ framesCount(context) = FramesAtEntry + childrenEntered(Head(agenda).at)
            /\ Head(agenda).op = "post" =>
                  CombinedGenerically(context, visit(S0, context, Head(agenda)),
                                      numChildren(NodeAt(root, Head(agenda).at)))
       ELSE /\ framesCount(context) = FramesAtEntry
            /\ IF numChildren(NodeAt(root, Head(agenda).at)) = 1
               THEN visit(S0, context, Head(agenda)) = context
               ELSE visit(S0, context, Head(agenda)) =
                       pushExpr(context, makeStateConst(trackIndex, TRUE))

\* C19 witness: the root is an optimised AND whose first child is an AND
\* of two children; the post-visit of the inner AND is next, no frame was
\* pushed for the child of the root and both children of the inner AND
\* have a frame.
C19_Witness ==
    /\ AtAndVisit
    /\ Head(agenda) = [op |-> "post", at |-> <<1>>]
    /\ root.kind = "and" /\ numChildren(root) = 2
    /\ numChildren(root.children[1]) = 2
    /\ FramesAtEntry = 1
    /\ framesCount(context) = 3

(***************************************************************************)
(* The stack discipline of the complete visit of a node.                   *)
(***************************************************************************)
\* Kinds whose visitors neither lower the node nor raise an error.
IgnoredKinds == {"internalBucketGeoWithin"}

\* Every node of the subtree at 'at' is of a kind the visitors lower.
SupportedSubtree(at) ==
    KindsOf(NodeAt(root, at)) \cap (UnsupportedKinds \cup IgnoredKinds) = {}

\* The complete visit from context c to context c1 of the node at 'at'
\* left every frame below the top one as it was and added exactly one
\* expression to the top frame, none for the optimised top-level AND.
VisitedOnTopFrame(c, c1, at) ==
    /\ c1.err = ""
    /\ framesCount(c1) = framesCount(c)
    /\ \A i \in 1..(framesCount(c) - 1) : c1.evalStack[i] = c.evalStack[i]
    /\ IF isTopLevelAnd(S0, at)
       THEN topFrame(c1).exprs = topFrame(c).exprs
       ELSE /\ exprsCount(topFrame(c1)) = exprsCount(topFrame(c)) + 1
            /\ SubSeq(topFrame(c1).exprs, 1, exprsCount(topFrame(c))) = topFrame(c).exprs

\* The post-visit of a node is the next step of the walk.
AtPostVisit == InWalk /\ Head(agenda).op = "post"

\* The frames pushed for the children of the node whose post-visit is next.
FramesPushed ==
    framesOfChildren(Head(agenda).at, numChildren(NodeAt(root, Head(agenda).at)))

RECURSIVE CountE(_, _)
\* The number of sub-expressions of e that satisfy hit.
CountE(hit(_), e) ==
    (IF hit(e) THEN 1 ELSE 0)
    + CASE e.k = "bin" -> CountE(hit, e.l) + CountE(hit, e.r)
        [] e.k = "not" -> CountE(hit, e.e)
        [] e.k = "fn" -> SumOver(LAMBDA i : CountE(hit, e.args[i]), 1..Len(e.args))
        [] e.k = "if" -> CountE(hit, e.c) + CountE(hit, e.t) + CountE(hit, e.e)
        [] e.k = "let" -> CountE(hit, e.bind) + CountE(hit, e.body)
        [] e.k = "lambda" -> CountE(hit, e.body)
        [] e.k = "leaf" -> CountE(hit, e.e)
        [] OTHER -> 0

RECURSIVE CountS(_, _)
\* The number of sub-expressions of the expressions of stage s that satisfy hit.
CountS(hit(_), s) ==
    CASE s.k = "project" ->
            CountS(hit, s.child)
            + SumOver(LAMBDA i : CountE(hit, s.binds[i].e), 1..Len(s.binds))
      [] s.k = "filter" -> CountS(hit, s.child) + CountE(hit, s.e)
      [] s.k = "limit" -> CountS(hit, s.child)
      [] s.k = "union" -> SumOver(LAMBDA i : CountS(hit, s.branches[i]), 1..Len(s.branches))
      [] s.k = "loopjoin" -> CountS(hit, s.left) + CountS(hit, s.right)
      [] s.k = "traverse" ->
            CountS(hit, s.from) + CountS(hit, s.inner)
            + CountE(hit, s.fold) + CountE(hit, s.final)
      [] OTHER -> 0

\* e reads a field of the value in 'slot': the start of a path traversal.
ReadsFieldOf(slot, e) ==
    /\ e.k = "fn" /\ e.name = "getField"
    /\ e.args[1].k = "var" /\ e.args[1].s = slot

\* e is the leaf predicate of the node at 'at' applied to the value in 'slot'.
AppliesLeafTo(at, slot, e) ==
    e.k = "leaf" /\ e.id = at /\ e.var.k = "var" /\ e.var.s = slot

\* The path traversals from the input slot of the top frame of c that the
\* visit from c to c1 put in the pushed expression / on the stage.
TraversalsInExpr(c, c1) ==
    CountE(LAMBDA e : ReadsFieldOf(topFrame(c1).inputSlot, e), topExpr(c1))
TraversalsInStage(prev, c1) ==
    CountS(LAMBDA e : ReadsFieldOf(topFrame(c1).inputSlot, e), topFrame(c1).stage)
    - CountS(LAMBDA e : ReadsFieldOf(topFrame(c1).inputSlot, e), prev)

\* The three ways generatePredicateImpl lowers a predicate on a path.
kDirect == "applied to the slot"
kTraverseF == "generateTraverseF"
kPathTraversal == "generatePathTraversal"

\* The way the plan shows: no traversal; a traversal in the expression and
\* the stage left as it was; a traversal on the stage.  'prev' is the
\* stage the predicate was built on.
LoweringOf(prev, c, c1) ==
    IF TraversalsInExpr(c, c1) = 0 /\ TraversalsInStage(prev, c1) = 0 THEN kDirect
    ELSE IF TraversalsInExpr(c, c1) = 1 /\ topFrame(c1).stage = prev THEN kTraverseF
    ELSE IF TraversalsInExpr(c, c1) = 0 /\ TraversalsInStage(prev, c1) = 1
    THEN kPathTraversal
    ELSE "other"

LeafKinds == ComparisonKinds \cup {"size", "exists"}
ElemMatchKinds == {"elemMatchObject", "elemMatchValue"}

\* The post-visit of a node lowered by generatePredicateImpl is next.
AtPredicateVisit ==
    /\ AtPostVisit
    /\ NodeAt(root, Head(agenda).at).kind \in LeafKinds \cup ElemMatchKinds
    /\ visit(S0, context, Head(agenda)).err = ""
    /\ visit(S0, context, Head(agenda)) # generateAlwaysBoolean(S0, context, FALSE)

\* The frame the predicate is lowered in and the stage it is built on: for
\* an $elemMatch the frames of the children are popped first and the
\* predicate is built on the stage of the frame below them.
PredicateFrame ==
    context.evalStack[framesCount(context) - FramesPushed]

\* The kField slot of the full path of the node, or 0.
FullPathSlot ==
    IF isFilterOverIxscan THEN getIfExists(kFieldSlots, NodeAt(root, Head(agenda).at).path)
    ELSE 0

\* The builder of the node supplies the expression form of its predicate.
SuppliesExpr == NodeAt(root, Head(agenda).at).kind \in LeafKinds

\* C21: a predicate lowered in a frame flagged child-of-$elemMatch(value),
\* or over an index scan that has a slot for the full path, is applied to
\* that slot and no traversal is generated; otherwise generateTraverseF is
\* used exactly when the builder supplies the expression form and the
\* state helper carries no value, and generatePathTraversal in every
\* other case.
C21_LoweringStrategy ==
    AtPredicateVisit =>
       /\ LoweringOf(PredicateFrame.stage, context, visit(S0, context, Head(agenda))) =
             IF PredicateFrame.childOfElemMatchValue \/ FullPathSlot # 0 THEN kDirect
             ELSE IF SuppliesExpr /\ ~trackIndex THEN kTraverseF
             ELSE kPathTraversal
       /\ SuppliesExpr /\ (PredicateFrame.childOfElemMatchValue \/ FullPathSlot # 0) =>
             CountE(LAMBDA e : AppliesLeafTo(Head(agenda).at,
                                            IF PredicateFrame.childOfElemMatchValue
                                            THEN PredicateFrame.inputSlot ELSE FullPathSlot,
                                            e),
                    topExpr(visit(S0, context, Head(agenda)))) = 1

\* C21 witness: the post-visit of a leaf is next and index tracking is on:
\* the builder supplies the expression form, and the stage generator is
\* used because the state carries a value.
C21_Witness ==
    /\ AtPredicateVisit
    /\ SuppliesExpr /\ trackIndex
    /\ ~PredicateFrame.childOfElemMatchValue
    /\ LoweringOf(PredicateFrame.stage, context, visit(S0, context, Head(agenda))) =
          kPathTraversal

(***************************************************************************)
(* The invocations of the predicate callback of a node.  Every invocation  *)
(* of makePredicateExpr leaves one marked expression in the plan, every    *)
(* invocation of the makePredicate of an $elemMatch one traverse stage     *)
(* over the slot of the current element.                                   *)
(***************************************************************************)
RECURSIVE CountStages(_, _)
\* The number of stages of the plan s that satisfy hit.
CountStages(hit(_), s) ==
    (IF hit(s) THEN 1 ELSE 0)
    + CASE s.k \in {"project", "filter", "limit"} -> CountStages(hit, s.child)
        [] s.k = "union" ->
              SumOver(LAMBDA i : CountStages(hit, s.branches[i]), 1..Len(s.branches))
        [] s.k = "loopjoin" -> CountStages(hit, s.left) + CountStages(hit, s.right)
        [] s.k = "traverse" -> CountStages(hit, s.from) + CountStages(hit, s.inner)
        [] OTHER -> 0

\* The invocations of makePredicateExpr of the leaf at 'at' in context c1.
LeafInvocations(at, c1) ==
    CountE(LAMBDA e : e.k = "leaf" /\ e.id = at, topExpr(c1))
    + CountS(LAMBDA e : e.k = "leaf" /\ e.id = at, topFrame(c1).stage)

\* The invocations of the makePredicate of the $elemMatch whose children
\* read the current element from 'childInputSlot'.
ElemMatchInvocations(childInputSlot, c1) ==
    CountStages(LAMBDA s : s.k = "traverse" /\ s.inField = childInputSlot,
                topFrame(c1).stage)

\* C22: the lowering of a leaf or $elemMatch node invokes the predicate
\* callback of the node exactly once.
C22_CallbackInvokedOnce ==
    AtPredicateVisit =>
       IF SuppliesExpr
       THEN LeafInvocations(Head(agenda).at, visit(S0, context, Head(agenda))) = 1
       ELSE ElemMatchInvocations(topFrame(context).inputSlot,
                                 visit(S0, context, Head(agenda))) = 1

\* C22 witness: a comparison with an array is
\* lowered with index tracking: the stage generator runs in the mode that
\* looks at the array and at its elements, and the callback was invoked
\* once.
C22_Witness ==
    /\ AtPredicateVisit
    /\ trackIndex
    /\ NodeAt(root, Head(agenda).at).kind \in ComparisonKinds
    /\ NodeAt(root, Head(agenda).at).rhs.t = "arr"
    /\ LeafInvocations(Head(agenda).at, visit(S0, context, Head(agenda))) = 1
    /\ CountStages(LAMBDA s : s.k = "union", topFrame(visit(S0, context, Head(agenda))).stage) = 1

(***************************************************************************)
(* The two passes of the stage generator in the mode that looks at an      *)
(* array and at its elements.  The root is a comparison with an array on   *)
(* field a and the state carries an index, so that the plan of the root is *)
(* loopjoin(read of a, limit-1(filter(project(traverse over the union of   *)
(* the two passes)))).                                                     *)
(***************************************************************************)
WholeArrayModeRan ==
    /\ LoweredAndRan /\ ~isFilterOverIxscan /\ trackIndex
    /\ ArrayOperand(root) /\ root.path = <<"a">>
    /\ pending # NoPair

\* The row in which field a has been read into a slot.
FieldRow == EvalS(pending.stage.left, InputEnv(FALSE, context.params, doc), 1).rows[1]
\* The stage below the limit-1: the filter over the rows of the passes.
PassFilter == pending.stage.right.child
\* The first n passes, run whether the filter asks for them or not.
Passes(n) == EvalS(PassFilter.child, FieldRow, n)
\* The values pass n evaluated the predicate on.
PassEvaluatedOn(n) ==
    {ev.on : ev \in Passes(n).ev} \ (IF n = 1 THEN {} ELSE {ev.on : ev \in Passes(n - 1).ev})
\* The row of the first pass satisfies the filter: the limit-1 returns it
\* and the second pass is not run.
FirstPassDecides == IsTrue(EvalE(PassFilter.e, Passes(1).rows[1]).v)

\* Some element of the array satisfies the comparison of the root.
SomeElementHits(arr) == \E i \in 1..Len(arr.e) : CompareMatches(root.kind, root.rhs, arr.e[i])

\* C23: in the stage generator with whole-array-and-elements mode the
\* first pass evaluates the predicate on the elements of an array-valued
\* leaf and the second pass, on the whole array, runs only if no element
\* satisfied it; for a leaf value that is not an array the predicate is
\* evaluated once, on the value, in the first pass, and the second pass
\* does not run; the result is true iff some element or the whole value
\* satisfies the predicate.
C23_WholeArrayOnlyAfterElements ==
    WholeArrayModeRan =>
       /\ pending.stage.k = "loopjoin" /\ pending.stage.right.k = "limit"
       /\ PassFilter.k = "filter"
       /\ Len(Passes(2).rows) = 2
       /\ IF doc.f["a"].t = "arr"
          THEN /\ PassEvaluatedOn(1) \subseteq Elements(doc.f["a"])
               /\ PassEvaluatedOn(2) = {doc.f["a"]}
               /\ FirstPassDecides <=> SomeElementHits(doc.f["a"])
               /\ doc.f["a"] \in EvaluatedOn <=> ~SomeElementHits(doc.f["a"])
               /\ outcome.admitted <=>
                     \/ SomeElementHits(doc.f["a"])
                     \/ CompareMatches(root.kind, root.rhs, doc.f["a"])
          ELSE /\ PassEvaluatedOn(1) = {doc.f["a"]}
               /\ FirstPassDecides
               /\ EvaluatedOn = {doc.f["a"]}
               /\ outcome.admitted <=> CompareMatches(root.kind, root.rhs, doc.f["a"])

\* C23 witness: {a: {$gte: [1, 2]}} on {a: [3, 10]} with index tracking:
\* no element satisfies the comparison, the second pass evaluates it on
\* the whole array, which satisfies it.
C23_Witness ==
    /\ WholeArrayModeRan
    /\ root = Leaf("gte", <<"a">>, ArrV(<<IntV(1), IntV(2)>>))
    /\ doc = ObjA(ArrV(<<IntV(3), IntV(10)>>))
    /\ ~FirstPassDecides
    /\ EvaluatedOn = {IntV(3), IntV(10), ArrV(<<IntV(3), IntV(10)>>)}
    /\ outcome.admitted

(***************************************************************************)
(* A comparison with null on the path a.b.                                 *)
(***************************************************************************)
NullOnDottedPathRan ==
    /\ LoweredAndRan /\ ~isFilterOverIxscan
    /\ NullComparison(root) /\ root.path = <<"a", "b">>

\* Field b of an object is missing or null, or holds an array with a null.
MatchesNull(obj) ==
    \/ obj.f["b"].t \in {"nothing", "null"}
    \/ obj.f["b"].t = "arr" /\ \E i \in 1..Len(obj.f["b"].e) : obj.f["b"].e[i].t = "null"

\* The elements of an array that are objects.
ObjectElements(arr) == {x \in Elements(arr) : x.t = "obj"}

\* C24: for equality, $lte and $gte with null on the path a.b, a value of
\* a that is missing or a scalar and is reached directly matches; when a
\* holds an array only its object elements are descended into: the
\* predicate is evaluated on field b of object elements and on nothing
\* else, and the document matches iff an object element matches, so an
\* array of scalars never matches.
C24_ScalarInArrayNeverMatchesNull ==
    NullOnDottedPathRan =>
       /\ doc.f["a"].t \notin {"arr", "obj"} => outcome.admitted
       /\ doc.f["a"].t = "obj" => (outcome.admitted <=> MatchesNull(doc.f["a"]))
       /\ doc.f["a"].t = "arr" =>
             /\ outcome.admitted <=> \E x \in ObjectElements(doc.f["a"]) : MatchesNull(x)
             /\ EvaluatedOn \subseteq
                   UNION {{x.f["b"]} \cup (IF x.f["b"].t = "arr" THEN Elements(x.f["b"]) ELSE {}) :
                             x \in ObjectElements(doc.f["a"])}

\* C24 witness: {'a.b': null} on {a: [10]}: the scalar element is not
\* descended into, the predicate is not evaluated and the document does
\* not match.
C24_Witness ==
    /\ NullOnDottedPathRan
    /\ root.kind = "eq"
    /\ doc = ObjA(ArrV(<<IntV(10)>>))
    /\ EvaluatedOn = {}
    /\ ~outcome.admitted

(***************************************************************************)
(* The two path-traversal generators on one leaf: the leaf is lowered by   *)
(* generatePredicateExpr (generateTraverseF, boolean helper) and by        *)
(* generatePredicate (generatePathTraversal, indexed helper), and both     *)
(* plans are run on one document.  context holds the first lowering,       *)
(* pending the second, outcome.out and outcome.state their values.         *)
(***************************************************************************)
AgreePaths == {<<"a">>, <<"a", "b">>, <<"a", "">>, <<"a", "b", "">>, <<"a", "b", "b">>}

AgreeLeaves ==
    {Leaf(k, p, r) :
        k \in ComparisonKinds, p \in AgreePaths,
        r \in {IntV(5), Null, ArrV(<<IntV(1), IntV(2)>>)}}
    \cup {Leaf("size", p, IntV(n)) : p \in AgreePaths, n \in {0, 2}}
    \cup {Leaf("exists", p, Nothing) : p \in AgreePaths}

AgreeLeafValues ==
    {Nothing, Null, IntV(5), IntV(10), ArrV(<<>>), ArrV(<<IntV(5)>>),
     ArrV(<<IntV(1), IntV(2)>>), ArrV(<<Null, IntV(10)>>),
     ArrV(<<ArrV(<<IntV(1), IntV(2)>>)>>), ObjB(IntV(5)), ObjE(IntV(5)),
     ArrV(<<ObjB(IntV(5))>>), ArrV(<<ObjE(IntV(5)), IntV(10)>>)}

AgreeFieldValues ==
    AgreeLeafValues
    \cup {ObjB(v) : v \in AgreeLeafValues} \cup {ObjE(v) : v \in AgreeLeafValues}
    \cup {ArrV(<<ObjB(v)>>) : v \in AgreeLeafValues}
    \cup {ArrV(<<IntV(10), ObjB(v)>>) : v \in AgreeLeafValues}
    \cup {ArrV(<<ObjE(v), ObjB(Nothing)>>) : v \in AgreeLeafValues}
    \cup {ArrV(<<ArrV(<<ObjB(v)>>)>>) : v \in AgreeLeafValues}

AgreeDocs == {ObjA(v) : v \in AgreeFieldValues}

LoweredWith(track) ==
    visit(Static(root, track, FALSE),
          MatchExpressionVisitorContext(Static(root, track, FALSE), InputStage),
          [op |-> "post", at |-> <<>>])

AgreeInit ==
    /\ root \in AgreeLeaves
    /\ trackIndex = TRUE
    /\ isFilterOverIxscan = FALSE
    /\ gFeatureFlagSbeFull = TRUE
    /\ context = NoContext
    /\ agenda = <<>>
    /\ pc = "agree"
    /\ pending = NoPair
    /\ result = NoResult
    /\ doc = ObjV(NoFields)
    /\ outcome = NoOutcome
    /\ RewriteIdle

LowerByTraverseF ==
    /\ pc = "agree"
    /\ context' = LoweredWith(FALSE)
    /\ pc' = "traverseF"
    /\ UNCHANGED <<root, trackIndex, isFilterOverIxscan, gFeatureFlagSbeFull,
                   agenda, pending, result, doc, outcome>>
    /\ UNCHANGED rewriteVars

LowerByPathTraversal ==
    /\ pc = "traverseF"
    /\ pending' = [e |-> topExpr(LoweredWith(TRUE)),
                   stage |-> topFrame(LoweredWith(TRUE)).stage]
    /\ pc' = "pathTraversal"
    /\ UNCHANGED <<root, trackIndex, isFilterOverIxscan, gFeatureFlagSbeFull,
                   context, agenda, result, doc, outcome>>
    /\ UNCHANGED rewriteVars

EvaluateBoth ==
    /\ pc = "pathTraversal"
    /\ \E d \in AgreeDocs :
          /\ doc' = d
          /\ outcome' = [admitted |-> FALSE,
                         out |-> StateOn(context, d),
                         ev |-> {},
                         state |-> ValueOn(pending, InputEnv(FALSE, <<>>, d))]
    /\ pc' = "evaluated"
    /\ UNCHANGED <<root, trackIndex, isFilterOverIxscan, gFeatureFlagSbeFull,
                   context, agenda, pending, result>>
    /\ UNCHANGED rewriteVars

AgreeNext == LowerByTraverseF \/ LowerByPathTraversal \/ EvaluateBoth

AgreeSpec == AgreeInit /\ [][AgreeNext]_vars

\* The leaf went through both generators: the first lowering is an
\* expression over the unchanged input stage, the second added stages.
BothGenerated ==
    /\ pc = "evaluated"
    /\ context.err = ""
    /\ topFrame(context).stage = InputStage
    /\ CountStages(LAMBDA s : TRUE, pending.stage) > 1

\* C25: on every path, leaf predicate and document, the boolean component
\* of the state computed by the plan of generatePathTraversal equals the
\* boolean computed by the expression of generateTraverseF.
C25_GeneratorsAgree ==
    pc = "evaluated" =>
        /\ BothGenerated
        /\ outcome.out.t = "bool"
        /\ BoolOfState(outcome.state) = outcome.out

\* The same for every leaf but $size, whose predicate is not a state.
C25_AgreeExceptSize ==
    (pc = "evaluated" /\ root.kind # "size") =>
        /\ BothGenerated
        /\ outcome.out.t = "bool"
        /\ BoolOfState(outcome.state) = outcome.out

\* {'a.b': {$size: 0}} on {a: [{b: []}]}: true by generateTraverseF,
\* false by generatePathTraversal.
C25_SizeDisagrees ==
    /\ BothGenerated
    /\ root = Leaf("size", <<"a", "b">>, IntV(0))
    /\ doc = ObjA(ArrV(<<ObjB(ArrV(<<>>))>>))
    /\ outcome.out = BoolV(TRUE)
    /\ outcome.state = IdxState(FALSE, -1)

\* A trailing empty component on which both generators answer true.
C25_AgreeOnEmptyComponent ==
    /\ BothGenerated
    /\ root = Leaf("eq", <<"a", "">>, IntV(5))
    /\ doc = ObjA(ObjE(IntV(5)))
    /\ outcome.out = BoolV(TRUE)
    /\ outcome.state = IdxState(TRUE, -1)

\* The leaf is a comparison that a missing value satisfies.
MatchesMissing == NullComparison(root)

\* The documents on which evaluating the leaf runs into Nothing: the field
\* is missing, the field is an empty array, the value's type does not fit.
FieldIsMissing == doc.f["a"].t = "nothing"
FieldIsEmptyArray == doc.f["a"] = ArrV(<<>>)
FieldDoesNotFit ==
    /\ doc.f["a"].t = "int"
    /\ \/ root.kind = "size"
       \/ root.kind \in ComparisonKinds /\ root.rhs.t # "int"

IsFalseState(v) == v = BoolV(FALSE) \/ (v.t = "state" /\ ~v.sb)

InStateForm(v) == IF trackIndex THEN v.t = "state" ELSE v.t = "bool"

\* The root frame holds the expression pushed for the root, and the stage
\* below it gave a row on which the expression has a value.
RootValuePushed == pc = "ran" /\ pending # NoPair /\ outcome.state # NoRow

\* C27: the value pushed on the frame's expression stack is in the state
\* form of the active helper, for every predicate kind.
C27_PushedValueInStateForm == RootValuePushed => InStateForm(outcome.state)

\* The same for every root but a $size lowered through the generator.
C27_StateFormExceptSize ==
    (RootValuePushed /\ root.kind # "size") => InStateForm(outcome.state)

\* {a: {$size: 0}} with index tracking on {a: []}: the pushed value is the
\* plain boolean true, and the filter on its boolean rejects the document.
C27_SizePushesPlainBoolean ==
    /\ RootValuePushed /\ trackIndex
    /\ root = Node("size", <<"a">>, IntV(0), FALSE, <<>>)
    /\ doc = ObjA(ArrV(<<>>))
    /\ outcome.state = BoolV(TRUE)
    /\ ~outcome.admitted

(***************************************************************************)
(* The output slot of the optimised top-level AND.                         *)
(***************************************************************************)
\* The root is an AND lowered as a chain of filters, with index tracking.
OptimisedAnd ==
    /\ trackIndex /\ ~isFilterOverIxscan /\ gFeatureFlagSbeFull
    /\ root.kind = "and"
    /\ numChildren(root) \in 1..kMaxChildrenForTopLevelAndOptimization

\* The number of project stages of s that assign the slot.
AssignmentsOf(slot, s) ==
    CountStages(LAMBDA x : x.k = "project" /\ \E i \in DOMAIN x.binds : x.binds[i].slot = slot,
                s)

LastChild == root.children[numChildren(root)]

\* C28: with index tracking and the optimised top-level AND, the output
\* slot is unassigned until the post-visit of the AND, is assigned by one
\* stage, and holds the state of the last child: the stage admits a
\* document iff the states of all children are true, and the index it
\* returns is the index of the last child's state, whatever index the
\* states of the earlier children hold.
C28_OutputHoldsLastChildState ==
    /\ (OptimisedAnd /\ InWalk) => context.outputSlot = 0
    /\ (OptimisedAnd /\ pc = "ran") =>
          /\ context.outputSlot # 0
          /\ AssignmentsOf(context.outputSlot, result.stage) = 1
          /\ outcome.admitted <=>
                \A i \in 1..numChildren(root) :
                    BoolOfState(StateOf(root.children[i], doc)) = BoolV(TRUE)
          /\ outcome.admitted =>
                outcome.out = Builtin1("stateIndex", StateOf(LastChild, doc))

\* C28 witness: {$and: [{a: 2}, {b: 5}]} on {a: [10, 2], b: 5}: the first
\* child matches the element of index 1, the last child holds no index,
\* and the stage returns no index.
C28_Witness ==
    /\ OptimisedAnd /\ pc = "ran"
    /\ root = Logical("and", <<Leaf("eq", <<"a">>, IntV(2)), Leaf("eq", <<"b">>, IntV(5))>>)
    /\ doc = ObjV([NoFields EXCEPT !["a"] = ArrV(<<IntV(10), IntV(2)>>), !["b"] = IntV(5)])
    /\ StateOf(root.children[1], doc) = IdxState(TRUE, 1)
    /\ StateOf(LastChild, doc) = IdxState(TRUE, -1)
    /\ outcome.admitted
    /\ outcome.out = Nothing

(***************************************************************************)
(* The frames below an $elemMatch (value).                                 *)
(***************************************************************************)
\* The $elemMatch (value) nodes that enclose the node visited next.
EnclosingElemMatchValues ==
    {q \in EnclosingNodes \ {Head(agenda).at} : NodeAt(root, q).kind = "elemMatchValue"}

\* The post-visit of a leaf below an $elemMatch (value) is next.
AtLeafOfElemMatchValue ==
    /\ AtPostVisit
    /\ NodeAt(root, Head(agenda).at).kind \in LeafKinds
    /\ EnclosingElemMatchValues # {}

\* The frame pushed by the pre-visit of the $elemMatch for its first child:
\* the $elemMatch is the root or a child of the optimised root AND, so this
\* is the frame above the root frame; its input is the current element.
CurrentElementSlot == context.evalStack[2].inputSlot

\* An AND, OR or NOR of two or more children lies between the $elemMatch
\* and the leaf visited next.
BelowMultiChildOperator ==
    \E q \in EnclosingNodes \ {Head(agenda).at} :
        /\ \E m \in EnclosingElemMatchValues : IsPrefix(m, q) /\ m # q
        /\ NodeAt(root, q).kind \in {"and", "or", "nor"}
        /\ numChildren(NodeAt(root, q)) >= 2

LoweredDirectly ==
    LoweringOf(topFrame(context).stage, context, visit(S0, context, Head(agenda))) = kDirect

\* C29: every leaf below an $elemMatch (value) is lowered in a frame whose
\* input is the current-element slot and which is flagged
\* child-of-$elemMatch(value), and is applied to that slot without a path
\* traversal, also below a NOT or a multi-child AND / OR / NOR.
C29_LeavesInFlaggedElementFrame ==
    AtLeafOfElemMatchValue =>
        /\ topFrame(context).inputSlot = CurrentElementSlot
        /\ topFrame(context).childOfElemMatchValue
        /\ LoweredDirectly

\* Every such leaf is lowered in a frame on the current-element slot; the
\* frame is flagged, and the leaf applied directly, exactly when no
\* multi-child AND / OR / NOR lies between the $elemMatch and the leaf.
C29_FlagLostBelowMultiChildOperator ==
    AtLeafOfElemMatchValue =>
        /\ topFrame(context).inputSlot = CurrentElementSlot
        /\ topFrame(context).childOfElemMatchValue <=> ~BelowMultiChildOperator
        /\ LoweredDirectly <=> ~BelowMultiChildOperator

\* {a: {$elemMatch: {$not: {$gt: 5, $lt: 10}}}}: the post-visit of $gt is
\* next, in the frame pushed for the children of the AND, which is on the
\* current-element slot but not flagged.
C29_LeafBelowAndNotFlagged ==
    /\ AtLeafOfElemMatchValue
    /\ root.kind = "elemMatchValue"
    /\ Head(agenda).at = <<1, 1, 1>>
    /\ NodeAt(root, <<1, 1>>).kind = "and"
    /\ framesCount(context) = 3
    /\ topFrame(context).inputSlot = CurrentElementSlot
    /\ ~topFrame(context).childOfElemMatchValue
    /\ ~LoweredDirectly

\* A leaf below a NOT below the $elemMatch is in the flagged frame.
C29_LeafBelowNotFlagged ==
    /\ AtLeafOfElemMatchValue
    /\ Head(agenda).at = <<1, 1>>
    /\ NodeAt(root, <<1>>).kind = "not"
    /\ topFrame(context).childOfElemMatchValue
    /\ LoweredDirectly

(***************************************************************************)
(* RoutingTableHistory (mongo/s/routing_table_history_test.cpp): makeNew   *)
(* and makeUpdated as the tests and their comments describe them.  Shard   *)
(* keys are the integers globalMin..globalMax.                             *)
(***************************************************************************)
\* getShardKeyPattern().globalMin() and globalMax()
globalMin == 0
globalMax == 9
\* std::numeric_limits<int64_t>::min() and max() as shard keys
kInt64Min == 1
kInt64Max == 8
\* The keys at which genRandomChunkVector cuts the key space.
Boundaries == {3, 6}
\* The calls of makeUpdated one table goes through.
MaxUpdates == 2

kThisShard == "thisShard"
getShardId(i) == <<"shard0", "shard1", "shard2">>[i]

ChunkType(min, max, shard) == [min |-> min, max |-> max, shard |-> shard]
setMin(c, k) == [c EXCEPT !.min = k]
setMax(c, k) == [c EXCEPT !.max = k]
setShard(c, s) == [c EXCEPT !.shard = s]

\* The chunks between consecutive points, all on kThisShard.
genChunkVector(points) == [i \in 1..(Len(points) - 1) |-> ChunkType(points[i], points[i + 1], kThisShard)]

\* Key-ordered chunk vectors that tile the key space; the tests move each
\* chunk to a shard of its own where 'distinct' holds.
genRandomChunkVector ==
    LET vectors == {genChunkVector(<<globalMin, globalMax>>),
                    genChunkVector(<<globalMin, 3, globalMax>>),
                    genChunkVector(<<globalMin, 6, globalMax>>),
                    genChunkVector(<<globalMin, 3, 6, globalMax>>)}
    IN  vectors \cup {[i \in DOMAIN v |-> setShard(v[i], getShardId(i))] : v \in vectors}

\* A key strictly between two keys.
calculateIntermediateShardKey(lo, hi) == {k \in globalMin..globalMax : lo < k /\ k < hi}

erase(v, i) == [j \in 1..(Len(v) - 1) |-> IF j < i THEN v[j] ELSE v[j + 1]]

\* The orders in which the chunks of a vector can be versioned.
Orders(v) == {p \in [DOMAIN v -> DOMAIN v] : \A i, j \in DOMAIN v : p[i] = p[j] => i = j}

overlaps(a, b) == a.min < b.max /\ b.min < a.max

\* One changed chunk replaces the chunks of the table its range overlaps.
updateChunk(table, c) ==
    SelectSeq(table, LAMBDA x : x.max <= c.min) \o <<c>> \o SelectSeq(table, LAMBDA x : c.max <= x.min)

\* The table with the changed chunks inserted in the order of their versions.
RECURSIVE createMerged(_, _)
createMerged(table, changed) ==
    IF changed = <<>> THEN table
    ELSE createMerged(updateChunk(table, Head(changed)), Tail(changed))

\* The check made when a table is built: the first chunk starts at the
\* global minimum, the last ends at the global maximum, and a chunk on
\* another shard than its predecessor starts where the predecessor ends.
constructShardVersionMap(table) ==
    IF /\ table # <<>>
       /\ table[1].min = globalMin
       /\ table[Len(table)].max = globalMax
       /\ \A i \in 1..(Len(table) - 1) : table[i].shard # table[i + 1].shard => table[i].max = table[i + 1].min
    THEN ""
    ELSE "ConflictingOperationInProgress"

RoutingInit ==
    /\ NoFilterCall
    /\ NoRewriteCall
    /\ chunks \in genRandomChunkVector
    /\ rt = <<>>
    /\ routingPc = "chunks"
    /\ routingError = ""
    /\ updates = 0

\* The test changes the chunk vector before it calls makeNew.
Mutate(v) ==
    /\ routingPc = "chunks"
    /\ chunks' = v
    /\ routingPc' = "mutated"
    /\ UNCHANGED <<rt, routingError, updates>>
    /\ UNCHANGED <<root, trackIndex, isFilterOverIxscan, gFeatureFlagSbeFull, context, agenda, pc, pending, result, doc, outcome>>
    /\ UNCHANGED <<scanMode, rewriteExpr, tagDisjunction, runtimeComparison, rewritePc, calls, rewritten>>

\* RandomCreateWithMissingChunkFail
EraseChunk ==
    /\ Len(chunks) >= 2
    /\ \E i \in DOMAIN chunks : Mutate(erase(chunks, i))

\* The chunk with one bound moved to a key inside its range.
Shrunk(c) == {setMax(c, k) : k \in calculateIntermediateShardKey(c.min, c.max)} \cup {setMin(c, k) : k \in calculateIntermediateShardKey(c.min, c.max)}

\* Chunk i of v with one bound moved into the range of a neighbour.
Extended(v, i) ==
    (IF i < Len(v) THEN {setMax(v[i], k) : k \in calculateIntermediateShardKey(v[i].max, v[i + 1].max)} ELSE {})
    \cup (IF i > 1 THEN {setMin(v[i], k) : k \in calculateIntermediateShardKey(v[i - 1].min, v[i].min)} ELSE {})

\* RandomCreateWithChunkGapFail
ShrinkChunk ==
    /\ Len(chunks) >= 2
    /\ \E i \in DOMAIN chunks : \E c \in Shrunk(chunks[i]) : Mutate([chunks EXCEPT ![i] = c])

\* RandomCreateWithChunkOverlapFail
ExtendChunk ==
    /\ Len(chunks) >= 2
    /\ \E i \in DOMAIN chunks : \E c \in Extended(chunks, i) : Mutate([chunks EXCEPT ![i] = c])

\* RandomCreateWrongMinFail
SetWrongMin == Mutate([chunks EXCEPT ![1] = setMin(chunks[1], kInt64Min)])

\* RandomCreateWrongMaxFail
SetWrongMax == Mutate([chunks EXCEPT ![1] = setMax(chunks[1], kInt64Max)])

\* RoutingTableHistory::makeNew through the fixture
makeNewRt ==
    /\ routingPc \in {"chunks", "mutated"}
    /\ \E p \in Orders(chunks) :
          /\ routingError' = constructShardVersionMap(createMerged(<<>>, [i \in DOMAIN chunks |-> chunks[p[i]]]))
          /\ rt' = IF routingError' = "" THEN createMerged(<<>>, [i \in DOMAIN chunks |-> chunks[p[i]]]) ELSE <<>>
    /\ routingPc' = IF routingError' = "" THEN "made" ELSE "failed"
    /\ UNCHANGED <<chunks, updates>>
    /\ UNCHANGED <<root, trackIndex, isFilterOverIxscan, gFeatureFlagSbeFull, context, agenda, pc, pending, result, doc, outcome>>
    /\ UNCHANGED <<scanMode, rewriteExpr, tagDisjunction, runtimeComparison, rewritePc, calls, rewritten>>

\* RoutingTableHistory::makeUpdated: the new table, or the error and the
\* table as it was.
makeUpdated(changedChunks) ==
    /\ routingPc = "made"
    /\ updates < MaxUpdates
    /\ chunks' = changedChunks
    /\ routingError' = constructShardVersionMap(createMerged(rt, changedChunks))
    /\ rt' = IF routingError' = "" THEN createMerged(rt, changedChunks) ELSE rt
    /\ updates' = updates + 1
    /\ UNCHANGED routingPc
    /\ UNCHANGED <<root, trackIndex, isFilterOverIxscan, gFeatureFlagSbeFull, context, agenda, pc, pending, result, doc, outcome>>
    /\ UNCHANGED <<scanMode, rewriteExpr, tagDisjunction, runtimeComparison, rewritePc, calls, rewritten>>

\* RandomUpdateWithChunkGapFail
UpdateShrunk == \E i \in DOMAIN rt : \E c \in Shrunk(rt[i]) : makeUpdated(<<c>>)

\* RandomUpdateWithChunkOverlapFail
UpdateExtended == \E i \in DOMAIN rt : \E c \in Extended(rt, i) : makeUpdated(<<c>>)

\* splitChunk with the boundary points {min, k, max} of one chunk
splitChunk ==
    \E i \in DOMAIN rt : \E k \in calculateIntermediateShardKey(rt[i].min, rt[i].max) :
        makeUpdated(genChunkVector(<<rt[i].min, k, rt[i].max>>))

\* TestMergeChunks: one chunk in the place of two neighbours
MergeChunks ==
    \E i \in 1..(Len(rt) - 1) : makeUpdated(<<ChunkType(rt[i].min, rt[i + 1].max, kThisShard)>>)

RoutingNext ==
    \/ EraseChunk
    \/ ShrinkChunk
    \/ ExtendChunk
    \/ SetWrongMin
    \/ SetWrongMax
    \/ makeNewRt
    \/ UpdateShrunk
    \/ UpdateExtended
    \/ splitChunk
    \/ MergeChunks

RoutingSpec == RoutingInit /\ [][RoutingNext]_vars

\* The chunks cover [globalMin, globalMax) contiguously, none overlapping
\* another.
Tiles(table) ==
    /\ table # <<>>
    /\ table[1].min = globalMin
    /\ table[Len(table)].max = globalMax
    /\ \A i \in 1..(Len(table) - 1) : table[i].max = table[i + 1].min

OnDistinctShards(table) == \A i, j \in DOMAIN table : table[i].shard = table[j].shard => i = j

\* What the last call worked on: the vector handed to makeNew, or the table
\* with the changed chunks of makeUpdated.
ResultingChunks == IF updates = 0 THEN chunks ELSE createMerged(rt, chunks)

\* A call that was handed chunks on distinct shards which do not tile the
\* key space failed with ConflictingOperationInProgress.
UntiledOnDistinctShardsFails ==
    (/\ routingPc \in {"made", "failed"}
     /\ OnDistinctShards(ResultingChunks)
     /\ ~Tiles(ResultingChunks))
    => routingError = "ConflictingOperationInProgress"

\* C30: a RoutingTableHistory exists only for chunks that tile the key
\* space: makeNew and makeUpdated fail with ConflictingOperationInProgress
\* when the resulting chunks, on distinct shards, leave a gap, overlap in
\* part or miss the global minimum or maximum, and the chunks of every table
\* that exists cover [globalMin, globalMax) contiguously.
C30_TableTilesKeySpace ==
    /\ UntiledOnDistinctShardsFails
    /\ routingPc = "made" => Tiles(rt)

\* C30 where it holds: the failures happen as stated, no two chunks of a
\* table overlap, the table starts at the global minimum and ends at the
\* global maximum, and only chunks of one shard have a gap between them.
C30_GapsOnlyWithinOneShard ==
    /\ UntiledOnDistinctShardsFails
    /\ routingPc = "failed" => rt = <<>> /\ routingError = "ConflictingOperationInProgress"
    /\ routingPc = "made" =>
          /\ rt # <<>>
          /\ rt[1].min = globalMin
          /\ rt[Len(rt)].max = globalMax
          /\ \A i \in 1..(Len(rt) - 1) : rt[i].max <= rt[i + 1].min
          /\ \A i \in 1..(Len(rt) - 1) : rt[i].max < rt[i + 1].min => rt[i].shard = rt[i + 1].shard
          /\ OnDistinctShards(rt) => Tiles(rt)

\* C30: makeNew returned a table for three chunks of one shard with the
\* middle one erased: no chunk covers [3, 6).
C30_TableWithGap ==
    /\ routingPc = "made"
    /\ updates = 0
    /\ routingError = ""
    /\ chunks = <<ChunkType(globalMin, 3, kThisShard), ChunkType(6, globalMax, kThisShard)>>
    /\ rt = chunks

\* C30: each failure of the tests on distinct shards: a missing chunk, a
\* shrunk chunk and an extended chunk at makeNew, a shrunk chunk at
\* makeUpdated.
C30_MissingChunkFails ==
    /\ routingPc = "failed"
    /\ chunks = <<ChunkType(globalMin, 3, getShardId(1)), ChunkType(6, globalMax, getShardId(3))>>
    /\ routingError = "ConflictingOperationInProgress"

C30_OverlapFails ==
    /\ routingPc = "failed"
    /\ chunks = <<ChunkType(globalMin, 4, getShardId(1)), ChunkType(3, globalMax, getShardId(2))>>
    /\ routingError = "ConflictingOperationInProgress"

C30_UpdateWithGapFails ==
    /\ routingPc = "made"
    /\ updates = 1
    /\ rt = <<ChunkType(globalMin, 3, getShardId(1)), ChunkType(3, globalMax, getShardId(2))>>
    /\ chunks = <<ChunkType(4, globalMax, getShardId(2))>>
    /\ routingError = "ConflictingOperationInProgress"

====
